---- MODULE Spec2Model ----
(***************************************************************************)
(* Model of the dictionary import pipeline of cjdic:                       *)
(*   scripts/load-dict.js            remote (Supabase/Postgres) importer   *)
(*   scripts/yomitan-sqlite-*.js     embedded (SQLite) importer            *)
(*   supabase/migrations/*.sql       the schema and its constraints        *)
(* One importer process runs a sequence of import commands against one     *)
(* store.  Every attempt of a remote call is one step; in an embedded bank  *)
(* transaction every record is one step, and so is the commit.             *)
(***************************************************************************)
EXTENDS Integers, Sequences, FiniteSets, TLC

\* ---------------------------------------------------------------- bounds
\* Stands for BATCH_SIZE = 500 (load-dict.js:23), scaled down so that
\* batches fill, overflow and span bank files inside the model's archives.
BatchSize == 2
\* Import commands run one after the other against the same store.
MaxRuns == 2
\* Remote calls (with all their retry attempts) that meet a failure.
MaxFaults == 1
\* The rows of a page of the search page (maxRows, 25 in Search.vue), and
\* the search requests one behaviour of the page issues.
maxRows == 2
MaxRequests == 3
\* The rows of a transaction of the MongoDB-to-SQLite builder (BATCH, 1000
\* for kanjidic and 10000 for jmne), and the records of a collection.
BATCH == 2
MaxRecords == 3

\* ------------------------------------------------------ program constants
MAX_RETRIES == 3
RETRY_DELAY_MS == 1000
\* JS null / SQL NULL in an id or integer column (generated ids start at 1).
NULL == 0

Kinds == <<"terms", "term_meta", "tags", "kanji", "kanji_meta">>
KindSet == {Kinds[i] : i \in 1..Len(Kinds)}
InternTables == {"glossaries", "def_tag_sets", "rule_sets", "term_tag_sets"}
TableNames == {"dictionaries"} \cup InternTables \cup KindSet

\* ------------------------------------------------------------- strings
\* A tag/rule string is a sequence of characters; " " is whitespace.
\* A nullable string field of a bank record is null or a string.
JsNull == [isNull |-> TRUE, s |-> <<>>]
Str(s) == [isNull |-> FALSE, s |-> s]

RECURSIVE TrimStart(_)
TrimStart(s) ==
  IF s # <<>> /\ Head(s) = " " THEN TrimStart(Tail(s)) ELSE s

RECURSIVE TrimEnd(_)
TrimEnd(s) ==
  IF s # <<>> /\ s[Len(s)] = " " THEN TrimEnd(SubSeq(s, 1, Len(s) - 1)) ELSE s

\* String.prototype.trim
Trim(s) == TrimEnd(TrimStart(s))

\* A test that takes every string, also an empty one, for a value.
AnyString(v) == ~v.isNull

\* `v?.trim()` is truthy: v is a string with a non-whitespace character.
TrimTruthy(v) == ~v.isNull /\ Trim(v.s) # <<>>

\* ------------------------------------------------------------ glossary
\* A glossary is an array of text items.  JSON.stringify writes the array
\* as text: brackets, the quoted items in order, commas between them.
RECURSIVE StringifyItems(_)
StringifyItems(items) ==
  IF items = <<>> THEN <<>>
  ELSE IF Len(items) = 1 THEN <<"\"", items[1], "\"">>
  ELSE <<"\"", items[1], "\"", ",">> \o StringifyItems(Tail(items))

JSONStringify(content) == <<"[">> \o StringifyItems(content) \o <<"]">>

\* A digest that collides: texts of equal length share it.
Sha1Collide(str) == <<"sha1", Len(str)>>

\* SHA-1 hex digest of a text.  The digest is taken to be collision free on
\* the texts of the model: it is the text tagged as a digest.
sha1(str) == <<"sha1", str>>

\* JSON.stringify of the data of a term_meta record (a number, or an object
\* with an optional reading), and JSON.parse of that text.
StringifyData(data) ==
  IF ~data.isObject THEN <<data.value>>
  ELSE IF data.hasReading
  THEN <<"{", "reading", ":", data.reading, ",", "value", ":", data.value, "}">>
  ELSE <<"{", "value", ":", data.value, "}">>

ParseData(text) ==
  IF Len(text) = 1
  THEN [isObject |-> FALSE, hasReading |-> FALSE, reading |-> "", value |-> text[1]]
  ELSE IF text[2] = "reading"
  THEN [isObject |-> TRUE, hasReading |-> TRUE, reading |-> text[4], value |-> text[8]]
  ELSE [isObject |-> TRUE, hasReading |-> FALSE, reading |-> "", value |-> text[4]]

\* ------------------------------------------------------------- archives
\* A term_bank record [term, reading, definitionTags, rules, score,
\* glossary, sequence, termTags] (types/yomitan.d.ts, TermEntry).
TermEntry(term, reading, defTags, rules, score, glossary, sequence, termTags) ==
  [term |-> term, reading |-> reading, defTags |-> defTags, rules |-> rules,
   score |-> score, glossary |-> glossary, sequence |-> sequence,
   termTags |-> termTags]

\* One file of the zip: its bank kind (the name's prefix), the N of its name,
\* whether its text is parsable JSON, and its array of records.
File(kind, n, parses, entries) ==
  [kind |-> kind, n |-> n, parses |-> parses, entries |-> entries]

eCat  == TermEntry("neko_kanji", "neko", JsNull, Str(<<>>), 100,
                   <<"cat", "feline">>, 1, Str(<<"n">>))
eDog  == TermEntry("inu_kanji", "inu", Str(<<"a", " ", "b">>), Str(<<"v", "1">>), 5,
                   <<"dog", "hound">>, 2, Str(<<" ">>))
eCat2 == TermEntry("neko_kana", "neko", Str(<<" ", "a", " ", "b">>), Str(<<" ">>), 7,
                   <<"cat", "feline">>, NULL, Str(<<"n", " ">>))
eKit  == TermEntry("koneko", "koneko", Str(<<>>), Str(<<"v", "1">>), 1,
                   <<"cat", "feline">>, 1, Str(<<"n">>))

\* Test/1: three terms in two term banks (the batch fills inside bank 2),
\* the files of the other kinds in between, in zip order.
ArchiveTest ==
  [title |-> "Test", revision |-> "1", readable |-> TRUE,
   hasIndex |-> TRUE,
   files |-> << File("terms", 1, TRUE, <<eCat>>),
                File("term_meta", 1, TRUE,
                     << [term |-> "neko_kanji", mode |-> "freq",
                         data |-> [isObject |-> FALSE, hasReading |-> FALSE,
                                   reading |-> "", value |-> 3]] >>),
                File("terms", 2, TRUE, <<eDog, eCat2>>),
                File("tags", 1, TRUE,
                     << [name |-> "n", category |-> "pos", sortOrder |-> 0,
                         notes |-> "noun", score |-> 0] >>),
                File("kanji", 1, TRUE,
                     << [character |-> "neko_kanji", onyomi |-> "byou",
                         kunyomi |-> "neko", tags |-> "", meanings |-> <<"cat">>,
                         stats |-> "s1"],
                        [character |-> "inu_kanji", onyomi |-> "ken",
                         kunyomi |-> "inu", tags |-> "", meanings |-> <<"dog">>,
                         stats |-> "s2"] >>),
                File("kanji_meta", 1, TRUE,
                     << [kanji |-> "neko_kanji", mode |-> "freq", data |-> 9] >>) >>]

\* Other/1: one term that shares its glossary and tag strings with Test/1.
ArchiveOther ==
  [title |-> "Other", revision |-> "1", readable |-> TRUE,
   hasIndex |-> TRUE,
   files |-> << File("terms", 1, TRUE, <<eKit>>) >>]

Archives == {ArchiveTest, ArchiveOther}

tagN == [name |-> "n", category |-> "pos", sortOrder |-> 0, notes |-> "noun",
         score |-> 0]

\* Corrupt/1: a term bank and a tag bank, then a term bank whose text is
\* not JSON.
ArchiveCorrupt ==
  [title |-> "Corrupt", revision |-> "1", readable |-> TRUE,
   hasIndex |-> TRUE,
   files |-> << File("terms", 1, TRUE, <<eKit>>),
                File("tags", 1, TRUE, <<tagN>>),
                File("terms", 2, FALSE, <<>>) >>]

\* A zip without index.json, and a path that is no zip file (missing, or
\* not a zip): neither has a title or a revision to read, the ones here are
\* never stored.
ArchiveNoIndex ==
  [title |-> "NoIndex", revision |-> "1", readable |-> TRUE, hasIndex |-> FALSE,
   files |-> << File("terms", 1, TRUE, <<eKit>>) >>]

ArchiveUnreadable ==
  [title |-> "Unreadable", revision |-> "1", readable |-> FALSE,
   hasIndex |-> FALSE, files |-> <<>>]

metaFreq(term, value) ==
  [term |-> term, mode |-> "freq",
   data |-> [isObject |-> FALSE, hasReading |-> FALSE, reading |-> "", value |-> value]]

\* BadMeta/1: a term bank, a term_meta bank, then a term_meta bank whose
\* second record has a mode that is neither "freq" nor "pitch".
ArchiveBadMeta ==
  [title |-> "BadMeta", revision |-> "1", readable |-> TRUE, hasIndex |-> TRUE,
   files |-> << File("terms", 1, TRUE, <<eKit>>),
                File("term_meta", 1, TRUE, <<metaFreq("koneko", 1)>>),
                File("term_meta", 2, TRUE,
                     << metaFreq("koneko", 2),
                        [metaFreq("koneko", 3) EXCEPT !.mode = "ipa"] >>) >>]

tagV == [name |-> "v", category |-> "pos", sortOrder |-> 1, notes |-> "verb",
         score |-> 0]

\* DupTag/1: a term bank, then a tag bank that repeats the name "n".
ArchiveDupTag ==
  [title |-> "DupTag", revision |-> "1", readable |-> TRUE, hasIndex |-> TRUE,
   files |-> << File("terms", 1, TRUE, <<eKit>>),
                File("tags", 1, TRUE,
                     <<tagN, [tagN EXCEPT !.category = "archaism"], tagV>>) >>]

\* Tags/1: one tag bank and no other bank.
ArchiveTags ==
  [title |-> "Tags", revision |-> "1", readable |-> TRUE, hasIndex |-> TRUE,
   files |-> << File("tags", 1, TRUE, <<tagN, tagV>>) >>]

\* BadTerm/1: the second term bank holds a record with a new glossary and
\* new strings, then a record whose score is null (terms.score is NOT NULL;
\* no other term record of the model has score 0, which stands for null).
eNoScore == TermEntry("tori_kanji", "tori", JsNull, Str(<<>>), NULL,
                      <<"bird">>, NULL, JsNull)
ArchiveBadTerm ==
  [title |-> "BadTerm", revision |-> "1", readable |-> TRUE, hasIndex |-> TRUE,
   files |-> << File("terms", 1, TRUE, <<eCat>>),
                File("terms", 2, TRUE, <<eDog, eNoScore>>) >>]

\* A command line without the archive path: there is no archive.
NoArgument ==
  [title |-> "", revision |-> "", readable |-> FALSE, hasIndex |-> FALSE,
   files |-> <<>>]

\* Gap/1: term_bank_1.json and term_bank_3.json, no term_bank_2.json.
ArchiveGap ==
  [title |-> "Gap", revision |-> "1", readable |-> TRUE, hasIndex |-> TRUE,
   files |-> << File("terms", 1, TRUE, <<eKit>>),
                File("terms", 3, TRUE, <<eDog>>) >>]

\* Archives with banks that fail or are missing, next to Test/1.
BadArchives ==
  {ArchiveTest, ArchiveCorrupt, ArchiveNoIndex, ArchiveUnreadable, ArchiveGap}

\* The data of a term_meta record: an object with a reading (always so for
\* mode "pitch"), or an object without one.
metaObject(term, mode, reading, value) ==
  [term |-> term, mode |-> mode,
   data |-> [isObject |-> TRUE, hasReading |-> TRUE, reading |-> reading,
             value |-> value]]
metaNoReading(term, value) ==
  [term |-> term, mode |-> "freq",
   data |-> [isObject |-> TRUE, hasReading |-> FALSE, reading |-> "", value |-> value]]

\* Meta/1: a term, and term_meta records with each shape of data.
ArchiveMeta ==
  [title |-> "Meta", revision |-> "1", readable |-> TRUE, hasIndex |-> TRUE,
   files |-> << File("terms", 1, TRUE, <<eKit>>),
                File("term_meta", 1, TRUE,
                     << metaFreq("koneko", 1),
                        metaObject("koneko", "pitch", "koneko", 2) >>),
                File("term_meta", 2, TRUE,
                     << metaObject("koneko", "freq", "koneko", 3),
                        metaNoReading("koneko", 4) >>) >>]

\* Archives with a record the schema rejects or ignores.
RejectedArchives == {ArchiveBadMeta, ArchiveDupTag}

\* ---------------------------------------------------------------- store
EmptyDb == [t \in TableNames |-> {}]
ZeroSeq == [t \in TableNames |-> 0]

Ids(d, t) == {r.id : r \in d[t]}

\* A schema without UNIQUE constraints.
SameKeyNever(t, x, y) == FALSE

\* UNIQUE constraints of the schema: two rows of table t with the same key.
SameKey(t, x, y) ==
  CASE t = "dictionaries" -> x.title = y.title /\ x.revision = y.revision
    [] t = "glossaries" -> x.hash = y.hash
    [] t = "def_tag_sets" -> x.tags = y.tags
    [] t = "term_tag_sets" -> x.tags = y.tags
    [] t = "rule_sets" -> x.rules = y.rules
    [] t = "tags" -> x.dict_id = y.dict_id /\ x.name = y.name
    [] OTHER -> FALSE

Conflicts(d, t, r) == \E x \in d[t] : SameKey(t, x, r)

\* An id column that REFERENCES table t: the row exists.
RefOk(d, t, id) == id \in Ids(d, t)
NullableRefOk(d, t, id) == id = NULL \/ RefOk(d, t, id)

\* NOT NULL, CHECK and FOREIGN KEY constraints of a new row of table t.
RowOk(d, t, r) ==
  CASE t = "terms" ->
         /\ r.score # NULL
         /\ RefOk(d, "dictionaries", r.dict_id)
         /\ RefOk(d, "glossaries", r.glossary_id)
         /\ NullableRefOk(d, "def_tag_sets", r.def_tags_id)
         /\ NullableRefOk(d, "rule_sets", r.rules_id)
         /\ NullableRefOk(d, "term_tag_sets", r.term_tags_id)
    [] t = "term_meta" ->
         RefOk(d, "dictionaries", r.dict_id) /\ r.mode \in {"freq", "pitch"}
    [] t \in {"tags", "kanji", "kanji_meta"} -> RefOk(d, "dictionaries", r.dict_id)
    [] OTHER -> TRUE

InsertRow(d, t, r, id) == [d EXCEPT ![t] = @ \cup {[id |-> id] @@ r}]

\* ------------------------------------------------- remote store (Postgres)
Min(S) == CHOOSE i \in S : \A j \in S : i <= j

\* An INSERT that no constraint stops.
InsertAllUnchecked(d, s, t, rows) ==
  [ok |-> TRUE,
   db |-> [d EXCEPT ![t] = @ \cup {[id |-> s[t] + i] @@ rows[i] : i \in 1..Len(rows)}],
   seq |-> [s EXCEPT ![t] = @ + Len(rows)],
   id |-> s[t] + Len(rows)]

\* INSERT of rows into t, one statement: all rows or none.  A BIGSERIAL id
\* is the next value of the table's sequence; the statement draws a value
\* for every row it tries, also when that row then violates a constraint
\* and the statement fails.
InsertAll(d, s, t, rows) ==
  LET n == Len(rows)
      bad == {i \in 1..n : \/ ~RowOk(d, t, rows[i])
                           \/ Conflicts(d, t, rows[i])
                           \/ \E j \in 1..(i - 1) : SameKey(t, rows[j], rows[i])}
  IN IF bad = {}
     THEN [ok |-> TRUE,
           db |-> [d EXCEPT ![t] = @ \cup {[id |-> s[t] + i] @@ rows[i] : i \in 1..n}],
           seq |-> [s EXCEPT ![t] = @ + n],
           id |-> s[t] + n]
     ELSE [ok |-> FALSE, db |-> d, seq |-> [s EXCEPT ![t] = @ + Min(bad)],
           id |-> NULL]

\* An upsert that inserts a new row whatever the table holds.
UpsertAlwaysInserts(req, d, s) ==
  [db |-> InsertRow(d, req.table, req.rows[1], s[req.table] + 1),
   seq |-> [s EXCEPT ![req.table] = @ + 1],
   id |-> s[req.table] + 1, error |-> FALSE]

\* upsert(row, {onConflict: key}).select("id").single(), i.e.
\* INSERT .. ON CONFLICT (key) DO UPDATE SET .. RETURNING id: the row with
\* that key afterwards, new or updated, and its id.
Upsert(req, d, s) ==
  LET t == req.table
      hit == {x \in d[t] : SameKey(t, x, req.rows[1])}
  IN IF hit = {}
     THEN [db |-> InsertRow(d, t, req.rows[1], s[t] + 1),
           seq |-> [s EXCEPT ![t] = @ + 1], id |-> s[t] + 1, error |-> FALSE]
     ELSE [db |-> [d EXCEPT ![t] =
                     (@ \ hit) \cup {[id |-> x.id] @@ req.rows[1] : x \in hit}],
           seq |-> [s EXCEPT ![t] = @ + 1],
           id |-> (CHOOSE x \in hit : TRUE).id, error |-> FALSE]

\* What the store does with a request that reaches it, and its answer
\* {data, error}: db and seq afterwards, data's id (NULL: no data), and
\* whether an error is answered.
\*   insert: .from(t).insert(rows)[.select("id").single()]
\*   upsert: .from(t).upsert(row, {onConflict}).select("id").single()
\*   select: .from(t).select("id").eq(..).eq(..).maybeSingle()
Exec(req, d, s) ==
  CASE req.op = "insert" ->
         LET r == InsertAll(d, s, req.table, req.rows)
         IN IF r.ok THEN [db |-> r.db, seq |-> r.seq, id |-> r.id, error |-> FALSE]
            ELSE [db |-> d, seq |-> r.seq, id |-> NULL, error |-> TRUE]
    [] req.op = "upsert" -> Upsert(req, d, s)
    [] req.op = "select" ->
         LET hit == {x \in d[req.table] : SameKey(req.table, x, req.rows[1])}
         IN [db |-> d, seq |-> s,
             id |-> IF hit = {} THEN NULL ELSE (CHOOSE x \in hit : TRUE).id,
             error |-> FALSE]

InsertReq(t, rows) == [op |-> "insert", table |-> t, rows |-> rows]
UpsertReq(t, row) == [op |-> "upsert", table |-> t, rows |-> <<row>>]
SelectReq(t, row) == [op |-> "select", table |-> t, rows |-> <<row>>]

\* One awaited call of the client.  What happens to it is one of
\*   "ok"     the store executes the request and its answer arrives;
\*   "error"  the request is not executed, the call resolves to {error}
\*            (the client reports failures in its result);
\*   "throw"  the request is not executed, the call rejects;
\*   "lost"   the store executes the request, the answer is lost, the call
\*            rejects.
\* The result: db and seq afterwards, data's id, error, and thrown.
Call(req, kind, d, s) ==
  CASE kind = "ok" -> Exec(req, d, s) @@ [thrown |-> FALSE]
    [] kind = "error" ->
         [db |-> d, seq |-> s, id |-> NULL, error |-> TRUE, thrown |-> FALSE]
    [] kind = "throw" ->
         [db |-> d, seq |-> s, id |-> NULL, error |-> FALSE, thrown |-> TRUE]
    [] kind = "lost" ->
         [db |-> Exec(req, d, s).db, seq |-> Exec(req, d, s).seq, id |-> NULL,
          error |-> FALSE, thrown |-> TRUE]

\* What the attempts of one call meet: the kinds of its first attempts, every
\* attempt after them being "ok".  The model lets a call meet: nothing, an
\* error answered, a rejection, an executed request whose answer is lost,
\* and the rejection of every attempt.
Scenarios ==
  {<<>>, <<"error">>, <<"throw">>, <<"lost">>, <<"throw", "throw", "throw">>}

KindAt(sc) == IF sc = <<>> THEN "ok" ELSE Head(sc)
Rest(sc) == IF sc = <<>> THEN <<>> ELSE Tail(sc)
Met(sc) == IF sc = <<>> THEN 0 ELSE 1

\* withRetry(fn), after the attempt-th call of fn with result r:
\*   "return"  fn did not reject: its result is returned;
\*   "again"   fn rejected and attempt < MAX_RETRIES: wait, call fn again;
\*   "throw"   fn rejected MAX_RETRIES times: lastError is rethrown.
withRetry(r, n) ==
  IF ~r.thrown THEN "return"
  ELSE IF n < MAX_RETRIES THEN "again" ELSE "throw"

\* A wait of the same length before every retry.
DelayFlat(n) == RETRY_DELAY_MS

\* const delay = RETRY_DELAY_MS * Math.pow(2, attempt - 1)
Delay(n) == RETRY_DELAY_MS * 2 ^ (n - 1)

\* A call awaited outside withRetry.
Direct(r, n) == IF r.thrown THEN "throw" ELSE "return"

\* ---------------------------------------------------------------- state
VARIABLES
  backend,    \* "remote" (load-dict.js) or "sqlite" (the embedded importer)
  pool,       \* the archives the commands of this behaviour import
  db,         \* the store: table name -> set of rows
  seq,        \* remote store: table name -> last value of its id sequence
  run,        \* number of import commands started
  archive,    \* the archive of the current command
  bundledFlag,\* whether the current command was given --bundled
  pc,         \* where the current command stands
  existing,   \* what the check of this command found: "unset" before it
  dictId,     \* id of the Dictionary row this command registered
  phase,      \* remote: index in Kinds of the streaming processor running
  fi,         \* index of the zip entry (remote) / N of the bank (sqlite)
  ei,         \* index of the record of the current bank being processed
  batch,      \* remote: the pending rows
  cache,      \* interning table -> (value -> id), of this command
  cur,        \* ids resolved for the term record being processed
  attempt,    \* remote: number of the attempt of the current call
  plan,       \* remote: what the later attempts of the current call meet
  faults,     \* calls that met a failure so far
  work,       \* sqlite: the tables as the open transaction sees them
  dbAtStart,  \* history: db when the current command started
  prev,       \* history: archive and end of the previous command, and the
              \* value of faults when the current command started
  interned,   \* history: the (run, table, value, id) answers of intern
  unstored    \* history: batch writes of this command that stored no row

storeVars == <<db, seq>>
cmdVars == <<run, archive, bundledFlag, dbAtStart, prev>>
callVars == <<attempt, plan, faults>>
vars == <<backend, pool, db, seq, run, archive, bundledFlag, pc, existing, dictId, phase, fi, ei,
          batch, cache, cur, attempt, plan, faults, work, dbAtStart, prev,
          interned, unstored>>

EmptyCache == [t \in InternTables |-> <<>>]
NoIds == [glossary |-> NULL, defTags |-> NULL, rules |-> NULL, termTags |-> NULL]
Ended == {"done", "skipped", "failed", "usage"}

\* A command that always exits with code 0.
ExitCodeZero(at) == 0

\* The process exit code where the command ended: 0 after an import or a
\* skip, 1 after a fatal error (an uncaught rejection of a top-level await).
ExitCode(at) == IF at \in {"done", "skipped"} THEN 0 ELSE 1

InitWith(backends, archives) ==
  /\ backend \in backends
  /\ pool = archives
  /\ db = EmptyDb
  /\ seq = ZeroSeq
  /\ run = 0
  /\ archive = ArchiveTest
  /\ bundledFlag = FALSE
  /\ pc = "idle"
  /\ existing = "unset"
  /\ dictId = NULL
  /\ phase = 1
  /\ fi = 1
  /\ ei = 1
  /\ batch = <<>>
  /\ cache = EmptyCache
  /\ cur = NoIds
  /\ attempt = 1
  /\ plan = <<>>
  /\ faults = 0
  /\ work = EmptyDb
  /\ dbAtStart = EmptyDb
  /\ prev = [archive |-> ArchiveTest, pc |-> "idle", faults |-> 0]
  /\ interned = {}
  /\ unstored = 0

Init == InitWith({"remote", "sqlite"}, Archives)

\* A new command `import <archive>`: a new process, with nothing in memory.
\* Caches that outlive the command that filled them.
KeptCaches(c) == c

\* const glossaryCache = new Map(), .. : the four caches of a command are
\* made empty when it starts.
NewCaches(c) == EmptyCache

StartRun ==
  /\ pc \in Ended \cup {"idle", "hung"}
  /\ run < MaxRuns
  /\ \E a \in pool : archive' = a
  /\ bundledFlag' \in BOOLEAN
  /\ run' = run + 1
  /\ prev' = [archive |-> archive, pc |-> pc, faults |-> faults]
  /\ dbAtStart' = db
  /\ pc' = "start"
  /\ existing' = "unset"
  /\ dictId' = NULL
  /\ phase' = 1
  /\ fi' = 1
  /\ ei' = 1
  /\ batch' = <<>>
  /\ cache' = NewCaches(cache)
  /\ cur' = NoIds
  /\ unstored' = 0
  /\ work' = db
  /\ UNCHANGED <<backend, pool, db, seq, callVars, interned>>

\* ------------------------------------------ remote importer (load-dict.js)
\* What the call of this step meets: chosen when the call starts, then
\* followed by its later attempts.
Plans ==
  IF attempt = 1 THEN {sc \in Scenarios : sc = <<>> \/ faults < MaxFaults}
  ELSE {plan}

\* The call variables after an attempt that met sc and led withRetry to w.
Attempted(sc, w) ==
  /\ attempt' = IF w = "again" THEN attempt + 1 ELSE 1
  /\ plan' = IF w = "again" THEN Rest(sc) ELSE <<>>
  /\ faults' = faults + (IF attempt = 1 THEN Met(sc) ELSE 0)

IndexKey == [title |-> archive.title, revision |-> archive.revision]

\* A command that registers the dictionary without the existence check.
RegisterFirst(missing) == "register"

\* main / importDict: the zip is opened (a path that is no zip rejects: the
\* fatal error); after index.json is read the existence check comes first;
\* without an index.json the command goes to `missing`.
AfterIndex(missing) ==
  IF ~archive.readable THEN "failed"
  ELSE IF archive.hasIndex THEN "check" ELSE missing

\* if (!zipPath) { console.error(`Usage: ..`); process.exit(1) } comes before
\* anything is opened.
AfterArgs(missing) ==
  IF archive = NoArgument THEN "usage" ELSE AfterIndex(missing)

\* readIndexFromZip: the content of index.json.  The promise is resolved
\* in the handler of the index.json entry only and rejected on an error of
\* the zip only: for a zip without that entry it never settles, and the
\* command stays at its top-level await ("hung") without any error.
RemoteReadIndex ==
  /\ backend = "remote" /\ pc = "start"
  /\ pc' = AfterArgs("hung")
  /\ UNCHANGED <<backend, pool, work, storeVars, cmdVars, existing, callVars, dictId, phase, fi,
                 ei, batch, cache, cur, interned, unstored>>

\* A check that never finds the dictionary.
ExistingNever(r) == FALSE

\* "Skip if already installed": const { data: existing } = await ..; the
\* error of the answer is not read.
Existing(r) == r.id # NULL
Found(r) == IF Existing(r) THEN "found" ELSE "none"

RemoteCheck ==
  /\ backend = "remote" /\ pc = "check"
  /\ \E sc \in Plans : \E r \in {Call(SelectReq("dictionaries", IndexKey), KindAt(sc), db, seq)} :
       /\ pc' = IF Direct(r, attempt) = "throw" THEN "failed"
                ELSE IF Existing(r) THEN "skipped" ELSE "register"
       /\ existing' = IF Direct(r, attempt) = "throw" THEN existing ELSE Found(r)
       /\ db' = r.db
       /\ seq' = r.seq
       /\ Attempted(sc, Direct(r, attempt))
  /\ UNCHANGED <<backend, pool, work, cmdVars, dictId, phase, fi, ei, batch,
                 cache, cur, interned, unstored>>

\* The is_bundled of the new Dictionary row: the remote importer stores
\* isBundled (bundledFlag === "--bundled"); the embedded one has no such
\* argument, its INSERT statement holds the literal 1.
isBundled == IF backend = "remote" THEN bundledFlag ELSE TRUE

\* "Register dictionary": insert, select id, single; throws on error or no
\* data.
DictRow ==
  [title |-> archive.title, revision |-> archive.revision,
   is_bundled |-> isBundled]

RemoteRegister ==
  /\ backend = "remote" /\ pc = "register"
  /\ \E sc \in Plans : \E r \in {Call(InsertReq("dictionaries", <<DictRow>>), KindAt(sc), db, seq)} :
       LET bad == Direct(r, attempt) = "throw" \/ r.error \/ r.id = NULL
       IN /\ pc' = IF bad THEN "failed" ELSE "file"
          /\ dictId' = IF bad THEN NULL ELSE r.id
          /\ db' = r.db
          /\ seq' = r.seq
          /\ Attempted(sc, Direct(r, attempt))
  /\ phase' = 1 /\ fi' = 1 /\ ei' = 1 /\ batch' = <<>>
  /\ cache' = NewCaches(cache) /\ cur' = NoIds
  /\ UNCHANGED <<backend, pool, work, cmdVars, existing, interned, unstored>>

Kind == Kinds[phase]
CurFile == archive.files[fi]
CurEntry == CurFile.entries[ei]
EntryPc == IF Kind = "terms" THEN "internG" ELSE "row"

\* streamZipBankFiles: the next entry of the zip, or its end.  The callback
\* of a processor returns at once for a file of another kind; JSON.parse of
\* an unparsable file throws, which rejects the stream.
RemoteFile ==
  /\ backend = "remote" /\ pc = "file"
  /\ IF fi > Len(archive.files) THEN pc' = "final" /\ UNCHANGED <<fi, ei>>
     ELSE IF CurFile.kind # Kind THEN pc' = "file" /\ fi' = fi + 1 /\ ei' = 1
     ELSE IF ~CurFile.parses THEN pc' = "failed" /\ UNCHANGED <<fi, ei>>
     ELSE IF CurFile.entries = <<>> THEN pc' = "file" /\ fi' = fi + 1 /\ ei' = 1
     ELSE pc' = EntryPc /\ ei' = 1 /\ UNCHANGED fi
  /\ UNCHANGED <<backend, pool, work, storeVars, cmdVars, existing, callVars, dictId, phase,
                 batch, cache, cur, interned, unstored>>

\* The place after the current record: the next record of the file, or the
\* next entry of the zip.
NextPc == IF ei < Len(CurFile.entries) THEN EntryPc ELSE "file"
NextFi == IF ei < Len(CurFile.entries) THEN fi ELSE fi + 1
NextEi == IF ei < Len(CurFile.entries) THEN ei + 1 ELSE 1

ValueRow(t, value) == IF t = "rule_sets" THEN [rules |-> value] ELSE [tags |-> value]

Answered(t, key, id) ==
  interned \cup {[run |-> run, table |-> t, key |-> key, id |-> id]}

\* An interner that returns another id than the one answered.
DataIdOff(r) == r.id + 1

\* The id intern returns from the answer of the upsert: data.id.
DataId(r) == r.id

\* intern(table, column, value, cache) / internGlossary(content, cache) for
\* one field of the current term record: the cache first; on a miss the
\* upsert under withRetry, an error or no data throws, else the id of the
\* answer is cached and returned.  The import goes on at `to`.
\* An intern that never finds its value in the cache.
CacheEmpty(c, key) == FALSE

\* if (cache.has(value)) return cache.get(value)
CacheHas(c, key) == key \in DOMAIN c

InternNoCacheStep(t, row, key, field, to) ==
  \E sc \in Plans : \E r \in {Call(UpsertReq(t, row), KindAt(sc), db, seq)} :
    LET w == withRetry(r, attempt)
        ok == w = "return" /\ ~r.error /\ r.id # NULL
    IN /\ db' = r.db
       /\ seq' = r.seq
       /\ Attempted(sc, w)
       /\ pc' = IF w = "again" THEN pc ELSE IF ok THEN to ELSE "failed"
       /\ cur' = IF ok THEN [cur EXCEPT ![field] = DataId(r)] ELSE cur
       /\ cache' = IF ok THEN [cache EXCEPT ![t] = (key :> DataId(r)) @@ @] ELSE cache
       /\ interned' = IF ok THEN Answered(t, key, DataId(r)) ELSE interned

InternStep(t, row, key, field, to) ==
  IF CacheHas(cache[t], key)
  THEN /\ cur' = [cur EXCEPT ![field] = cache[t][key]]
       /\ pc' = to
       /\ interned' = Answered(t, key, cache[t][key])
       /\ UNCHANGED <<db, seq, cache, callVars>>
  ELSE InternNoCacheStep(t, row, key, field, to)

\* const glossaryId = await internGlossary(glossary, glossaryCache)
GlossaryHash == sha1(JSONStringify(CurEntry.glossary))

RemoteInternGlossary ==
  /\ backend = "remote" /\ pc = "internG"
  /\ InternStep("glossaries",
                [hash |-> GlossaryHash, content |-> CurEntry.glossary],
                GlossaryHash, "glossary", "internD")
  /\ UNCHANGED <<backend, pool, work, cmdVars, existing, dictId, phase, fi, ei, batch, unstored>>

\* const xId = x?.trim() ? await intern(table, column, x.trim(), cache) : null
InternField(at, field, t, to) ==
  /\ backend = "remote" /\ pc = at
  /\ IF TrimTruthy(CurEntry[field])
     THEN InternStep(t, ValueRow(t, Trim(CurEntry[field].s)),
                     Trim(CurEntry[field].s), field, to)
     ELSE /\ pc' = to
          /\ cur' = [cur EXCEPT ![field] = NULL]
          /\ UNCHANGED <<db, seq, cache, callVars, interned>>
  /\ UNCHANGED <<backend, pool, work, cmdVars, existing, dictId, phase, fi, ei, batch, unstored>>

RemoteInternDefTags == InternField("internD", "defTags", "def_tag_sets", "internR")
RemoteInternRules == InternField("internR", "rules", "rule_sets", "internT")
RemoteInternTermTags == InternField("internT", "termTags", "term_tag_sets", "row")

\* The row pushed for a term record.
TermRow(e, dict, ids) ==
  [dict_id |-> dict, term |-> e.term, reading |-> e.reading,
   def_tags_id |-> ids.defTags, rules_id |-> ids.rules, score |-> e.score,
   glossary_id |-> ids.glossary, sequence |-> e.sequence,
   term_tags_id |-> ids.termTags]

\* A reading column that is never filled.
MetaReadingNull(data) == JsNull

\* (data)?.reading ?? null of a term_meta record.
MetaReading(data) ==
  IF data.isObject /\ data.hasReading THEN Str(data.reading) ELSE JsNull

\* The row pushed for a record of a bank of kind `kind`.
BankRow(kind, e, dict, ids) ==
  CASE kind = "terms" -> TermRow(e, dict, ids)
    [] kind = "term_meta" ->
         [dict_id |-> dict, term |-> e.term, mode |-> e.mode,
          reading |-> MetaReading(e.data), data |-> e.data]
    [] kind = "tags" ->
         [dict_id |-> dict, name |-> e.name, category |-> e.category,
          sort_order |-> e.sortOrder, notes |-> e.notes, score |-> e.score]
    [] kind = "kanji" ->
         [dict_id |-> dict, character |-> e.character, onyomi |-> e.onyomi,
          kunyomi |-> e.kunyomi, tags |-> e.tags, meanings |-> e.meanings,
          stats |-> e.stats]
    [] kind = "kanji_meta" ->
         [dict_id |-> dict, kanji |-> e.kanji, mode |-> e.mode, data |-> e.data]

\* A batch written only once it holds more rows than the batch size.
FullLate(b) == Len(b) > BatchSize

\* batch.length >= BATCH_SIZE
Full(b) == Len(b) >= BatchSize

\* batch.push(row); if (batch.length >= BATCH_SIZE) the batch is written.
RemoteRow ==
  /\ backend = "remote" /\ pc = "row"
  /\ \E pushed \in {Append(batch, BankRow(Kind, CurEntry, dictId, cur))} :
       /\ batch' = pushed
       /\ pc' = IF Full(pushed) THEN "flush" ELSE NextPc
       /\ fi' = IF Full(pushed) THEN fi ELSE NextFi
       /\ ei' = IF Full(pushed) THEN ei ELSE NextEi
  /\ cur' = NoIds
  /\ UNCHANGED <<backend, pool, work, storeVars, cmdVars, existing, callVars, dictId, phase,
                 cache, interned, unstored>>

\* The write of a batch, supabase.from(kind).insert(batch): every processor
\* awaits it under withRetry, but the kanji processor its full batches,
\* which it awaits directly.  The result of the write is not read.
WriteNext(kind, isFinal, r, n) ==
  IF kind = "kanji" /\ ~isFinal THEN Direct(r, n) ELSE withRetry(r, n)

\* The rows are in table t (by their content, whatever their ids).
Content(t, d) == {[f \in DOMAIN r \ {"id"} |-> r[f]] : r \in d[t]}
Stored(t, rows, d) == \A i \in 1..Len(rows) : rows[i] \in Content(t, d)

\* await write(batch); totalProcessed += batch.length; batch = []
RemoteFlush ==
  /\ backend = "remote" /\ pc = "flush"
  /\ \E sc \in Plans : \E r \in {Call(InsertReq(Kind, batch), KindAt(sc), db, seq)} :
       \E w \in {WriteNext(Kind, FALSE, r, attempt)} :
         /\ db' = r.db
         /\ seq' = r.seq
         /\ Attempted(sc, w)
         /\ unstored' = unstored + (IF w # "again" /\ ~Stored(Kind, batch, r.db)
                                    THEN 1 ELSE 0)
         /\ pc' = IF w = "again" THEN pc ELSE IF w = "throw" THEN "failed" ELSE NextPc
         /\ batch' = IF w = "return" THEN <<>> ELSE batch
         /\ fi' = IF w = "return" THEN NextFi ELSE fi
         /\ ei' = IF w = "return" THEN NextEi ELSE ei
  /\ UNCHANGED <<backend, pool, work, cmdVars, existing, dictId, phase, cache, cur, interned>>

\* After the stream of a processor: if (batch.length > 0) the remainder is
\* written; then the next processor runs, and after the last one the import
\* is done.
AfterFinalPc == IF phase < Len(Kinds) THEN "file" ELSE "done"
AfterFinalPhase == IF phase < Len(Kinds) THEN phase + 1 ELSE phase

RemoteFinal ==
  /\ backend = "remote" /\ pc = "final"
  /\ IF batch = <<>>
     THEN /\ pc' = AfterFinalPc
          /\ phase' = AfterFinalPhase
          /\ UNCHANGED <<db, seq, callVars, unstored, batch>>
     ELSE \E sc \in Plans : \E r \in {Call(InsertReq(Kind, batch), KindAt(sc), db, seq)} :
            \E w \in {WriteNext(Kind, TRUE, r, attempt)} :
              /\ db' = r.db
              /\ seq' = r.seq
              /\ Attempted(sc, w)
              /\ unstored' = unstored + (IF w # "again" /\ ~Stored(Kind, batch, r.db)
                                         THEN 1 ELSE 0)
              /\ pc' = IF w = "again" THEN pc
                       ELSE IF w = "throw" THEN "failed" ELSE AfterFinalPc
              /\ phase' = IF w = "return" THEN AfterFinalPhase ELSE phase
              /\ batch' = IF w = "return" THEN <<>> ELSE batch
  /\ fi' = 1
  /\ ei' = 1
  /\ UNCHANGED <<backend, pool, work, cmdVars, existing, dictId, cache, cur, interned>>

Remote ==
  \/ RemoteReadIndex
  \/ RemoteCheck
  \/ RemoteRegister
  \/ RemoteFile
  \/ RemoteInternGlossary
  \/ RemoteInternDefTags
  \/ RemoteInternRules
  \/ RemoteInternTermTags
  \/ RemoteRow
  \/ RemoteFlush
  \/ RemoteFinal

\* ------------------------------- embedded importer (SQLite, importDict)
\* An INTEGER PRIMARY KEY id: one more than the largest id of the table.
SqliteId(d, t) ==
  IF d[t] = {} THEN 1 ELSE (CHOOSE i \in Ids(d, t) : \A j \in Ids(d, t) : j <= i) + 1

\* zip.file(`${prefix}_${i}.json`)
HasBank(a, kind, i) == \E k \in 1..Len(a.files) : a.files[k].kind = kind /\ a.files[k].n = i
Bank(a, kind, i) ==
  a.files[CHOOSE k \in 1..Len(a.files) : a.files[k].kind = kind /\ a.files[k].n = i]

\* countBanks: let i = 1; while (zip.file(..i..)) i++; return i - 1
countBanks(a, kind) ==
  IF \A i \in 1..Len(a.files) : HasBank(a, kind, i) THEN Len(a.files)
  ELSE Min({i \in 1..Len(a.files) : ~HasBank(a, kind, i)}) - 1

\* main: the zip is loaded and index.json read (a zip without it exits 1),
\* the database is opened and the schema created.
SqliteMain ==
  /\ backend = "sqlite" /\ pc = "start"
  /\ pc' = AfterArgs("failed")
  /\ UNCHANGED <<backend, pool, storeVars, cmdVars, existing, callVars, work, dictId,
                 phase, fi, ei, batch, cache, cur, interned, unstored>>

\* importDict: SELECT 1 FROM dictionaries WHERE title = ? AND revision = ?
SqliteCheck ==
  /\ backend = "sqlite" /\ pc = "check"
  /\ \E r \in {Exec(SelectReq("dictionaries", IndexKey), db, seq)} :
       /\ pc' = IF Existing(r) THEN "skipped" ELSE "register"
       /\ existing' = Found(r)
  /\ UNCHANGED <<backend, pool, storeVars, cmdVars, callVars, work, dictId,
                 phase, fi, ei, batch, cache, cur, interned, unstored>>

\* stmts.insertDict.run(..); dictId = last_insert_rowid().  The statement
\* throws on a UNIQUE violation.
SqliteRegister ==
  /\ backend = "sqlite" /\ pc = "register"
  /\ IF Conflicts(db, "dictionaries", DictRow)
     THEN pc' = "failed" /\ UNCHANGED <<db, dictId>>
     ELSE /\ db' = InsertRow(db, "dictionaries", DictRow, SqliteId(db, "dictionaries"))
          /\ dictId' = SqliteId(db, "dictionaries")
          /\ pc' = "bank"
  /\ phase' = 1 /\ fi' = 1 /\ ei' = 1
  /\ cache' = NewCaches(cache) /\ cur' = NoIds
  /\ UNCHANGED <<backend, pool, seq, cmdVars, existing, callVars, work, batch, interned,
                 unstored>>

\* The bank kinds importDict imports, in this order.
SqliteKinds == <<"terms", "term_meta", "tags">>
SqKind == SqliteKinds[phase]

\* The head of the loop over the banks of one kind: after the last bank the
\* next kind, or the end; else the bank is parsed (JSON.parse throws on an
\* unparsable file) and its transaction begins.
SqliteBank ==
  /\ backend = "sqlite" /\ pc = "bank"
  /\ IF fi > countBanks(archive, SqKind)
     THEN /\ pc' = IF phase < Len(SqliteKinds) THEN "bank" ELSE "done"
          /\ phase' = IF phase < Len(SqliteKinds) THEN phase + 1 ELSE phase
          /\ fi' = 1
          /\ UNCHANGED <<ei, work>>
     ELSE /\ pc' = IF ~Bank(archive, SqKind, fi).parses THEN "failed"
                   ELSE IF Bank(archive, SqKind, fi).entries = <<>> THEN "commit"
                   ELSE "txn"
          /\ work' = db
          /\ ei' = 1
          /\ UNCHANGED <<phase, fi>>
  /\ UNCHANGED <<backend, pool, storeVars, cmdVars, existing, callVars, dictId, batch,
                 cache, cur, interned, unstored>>

\* A transaction that keeps the rows written before the statement that
\* threw.
RollbackKeeps(committed, inTxn) == inTxn

\* db.transaction(fn)(): when fn throws the transaction is rolled back, the
\* store is as it was committed before, and the error is thrown on.
Rollback(committed, inTxn) == committed

\* intern(insert, select, cache, value): the cache first; on a miss INSERT OR
\* IGNORE, then SELECT id by the value, cached.  d is the tables as the
\* transaction sees them, c the caches; the result has both afterwards.
SqIntern(d, c, t, row, key) ==
  IF CacheHas(c[t], key) THEN [db |-> d, cache |-> c, id |-> c[t][key]]
  ELSE IF Conflicts(d, t, row)
  THEN [db |-> d,
        cache |-> [c EXCEPT ![t] = (key :> (CHOOSE x \in d[t] : SameKey(t, x, row)).id) @@ @],
        id |-> (CHOOSE x \in d[t] : SameKey(t, x, row)).id]
  ELSE [db |-> InsertRow(d, t, row, SqliteId(d, t)),
        cache |-> [c EXCEPT ![t] = (key :> SqliteId(d, t)) @@ @],
        id |-> SqliteId(d, t)]

\* x?.trim() ? intern(.., x.trim()) : null
SqInternField(d, c, t, v) ==
  IF TrimTruthy(v) THEN SqIntern(d, c, t, ValueRow(t, Trim(v.s)), Trim(v.s))
  ELSE [db |-> d, cache |-> c, id |-> NULL]

SqAnswer(t, v, id) ==
  IF TrimTruthy(v) THEN {[run |-> run, table |-> t, key |-> Trim(v.s), id |-> id]}
  ELSE {}

SqEntry == Bank(archive, SqKind, fi).entries[ei]
SqGlossaryJson == JSONStringify(SqEntry.glossary)

\* After a statement of the transaction: the statement threw (the
\* transaction is rolled back and importDict rejects), or the next record,
\* or the commit.
SqAfter(ok) ==
  /\ pc' = IF ~ok THEN "failed"
           ELSE IF ei < Len(Bank(archive, SqKind, fi).entries) THEN "txn" ELSE "commit"
  /\ ei' = IF ok /\ ei < Len(Bank(archive, SqKind, fi).entries) THEN ei + 1 ELSE ei

\* One record of a term bank inside insertBank: the glossary and the three
\* strings are interned, then stmts.insertTerm.run(..).
SqliteTermRow ==
  /\ backend = "sqlite" /\ pc = "txn" /\ SqKind = "terms"
  /\ \E g \in {SqIntern(work, cache, "glossaries",
                        [hash |-> sha1(SqGlossaryJson), content |-> SqGlossaryJson],
                        sha1(SqGlossaryJson))} :
     \E dt \in {SqInternField(g.db, g.cache, "def_tag_sets", SqEntry.defTags)} :
     \E ru \in {SqInternField(dt.db, dt.cache, "rule_sets", SqEntry.rules)} :
     \E tt \in {SqInternField(ru.db, ru.cache, "term_tag_sets", SqEntry.termTags)} :
     \E row \in {TermRow(SqEntry, dictId,
                         [glossary |-> g.id, defTags |-> dt.id, rules |-> ru.id,
                          termTags |-> tt.id])} :
       /\ cache' = tt.cache
       /\ interned' = interned
            \cup {[run |-> run, table |-> "glossaries",
                   key |-> sha1(SqGlossaryJson), id |-> g.id]}
            \cup SqAnswer("def_tag_sets", SqEntry.defTags, dt.id)
            \cup SqAnswer("rule_sets", SqEntry.rules, ru.id)
            \cup SqAnswer("term_tag_sets", SqEntry.termTags, tt.id)
       /\ work' = IF RowOk(tt.db, "terms", row)
                  THEN InsertRow(tt.db, "terms", row, SqliteId(tt.db, "terms"))
                  ELSE db
       /\ db' = IF RowOk(tt.db, "terms", row) THEN db ELSE Rollback(db, tt.db)
       /\ SqAfter(RowOk(tt.db, "terms", row))
  /\ UNCHANGED <<backend, pool, seq, cmdVars, existing, callVars, dictId, phase, fi,
                 batch, cur, unstored>>

\* One record of a term_meta bank (stmts.insertMeta.run) or of a tag bank
\* (stmts.insertTag.run, INSERT OR IGNORE) inside its transaction.
SqBankRow(kind, e, dict) ==
  IF kind = "term_meta"
  THEN [BankRow(kind, e, dict, NoIds) EXCEPT !.data = StringifyData(e.data)]
  ELSE BankRow(kind, e, dict, NoIds)

SqliteRow ==
  /\ backend = "sqlite" /\ pc = "txn" /\ SqKind # "terms"
  /\ \E row \in {SqBankRow(SqKind, SqEntry, dictId)} :
       /\ work' = IF ~RowOk(work, SqKind, row) THEN db
                  ELSE IF Conflicts(work, SqKind, row) THEN work
                  ELSE InsertRow(work, SqKind, row, SqliteId(work, SqKind))
       /\ db' = IF RowOk(work, SqKind, row) THEN db ELSE Rollback(db, work)
       /\ SqAfter(RowOk(work, SqKind, row))
  /\ UNCHANGED <<backend, pool, seq, cmdVars, existing, callVars, dictId, phase, fi,
                 batch, cache, cur, interned, unstored>>

\* The transaction of the bank commits; the loop goes on with the next bank.
SqliteCommit ==
  /\ backend = "sqlite" /\ pc = "commit"
  /\ db' = work
  /\ pc' = "bank"
  /\ fi' = fi + 1
  /\ ei' = 1
  /\ UNCHANGED <<backend, pool, seq, cmdVars, existing, callVars, work, dictId, phase,
                 batch, cache, cur, interned, unstored>>

Sqlite ==
  \/ SqliteMain
  \/ SqliteCheck
  \/ SqliteRegister
  \/ SqliteBank
  \/ SqliteTermRow
  \/ SqliteRow
  \/ SqliteCommit

Next == StartRun \/ Remote \/ Sqlite

Spec == Init /\ [][Next]_vars

\* The same commands over the archives with failing banks.
InitBad == InitWith({"remote", "sqlite"}, BadArchives)
SpecBad == InitBad /\ [][Next]_vars

\* ------------------------------------------- removal of a dictionary
\* A foreign key on dict_id without ON DELETE CASCADE whose check is off.
NoCascade(d, t, id) == d[t]

\* dict_id .. REFERENCES dictionaries(id) ON DELETE CASCADE: the rows of
\* table t left when Dictionary row id is deleted.
Cascade(d, t, id) == {x \in d[t] : x.dict_id # id}

\* DELETE FROM dictionaries WHERE id = ..: the five tables with a dict_id
\* cascade; the interning tables have no reference to dictionaries.
DeleteFrom(d, id) ==
  [t \in TableNames |->
     IF t = "dictionaries" THEN {x \in d[t] : x.id # id}
     ELSE IF t \in KindSet THEN Cascade(d, t, id)
     ELSE d[t]]

\* An explicit removal of an installed dictionary, between two commands.
DeleteDictionary ==
  /\ pc \in Ended \cup {"idle"}
  /\ \E x \in db["dictionaries"] : db' = DeleteFrom(db, x.id)
  /\ UNCHANGED <<backend, pool, seq, cmdVars, pc, existing, dictId, phase, fi, ei,
                 batch, cache, cur, callVars, work, interned, unstored>>

\* Two archives with the same term record, one of them with tags.
InitDelete == InitWith({"remote", "sqlite"}, {ArchiveOther, ArchiveDupTag})
NextDelete == Next \/ DeleteDictionary
SpecDelete == InitDelete /\ [][NextDelete]_vars

InitCli ==
  InitWith({"remote", "sqlite"}, {ArchiveMeta, ArchiveUnreadable, NoArgument})
SpecCli == InitCli /\ [][Next]_vars

InitMeta == InitWith({"remote", "sqlite"}, {ArchiveMeta})
SpecMeta == InitMeta /\ [][Next]_vars

InitBadTerm == InitWith({"remote", "sqlite"}, {ArchiveBadTerm, ArchiveDupTag})
SpecBadTerm == InitBadTerm /\ [][Next]_vars

InitRejected == InitWith({"remote", "sqlite"}, RejectedArchives)
SpecRejected == InitRejected /\ [][Next]_vars

\* --------------------- two importer instances interning (load-dict.js)
\* Two processes of the remote importer run at once against the store, each
\* in its calls of intern / internGlossary.  Here pc, ei, batch, cache and
\* cur hold one value per instance: batch[p] the upserts instance p is to
\* make, cur[p] the ids intern returned to p and the answer p awaits.
Procs == {1, 2}

RaceValues(t) ==
  IF t = "glossaries"
  THEN {[hash |-> sha1(JSONStringify(c)), content |-> c] :
          c \in {<<"cat", "feline">>, <<"dog", "hound">>}}
  ELSE {ValueRow(t, v) : v \in {<<"n">>, <<"v", "1">>}}

\* The interning each instance does: two values of one table, in either
\* order, or one value twice.
RaceLists(t) ==
  {<<UpsertReq(t, x), UpsertReq(t, y)>> : x \in RaceValues(t), y \in RaceValues(t)}

\* The cache key of a request: the hash of a glossary, the string of a tag
\* or rule set.
KeyOf(req) ==
  CASE req.table = "glossaries" -> req.rows[1].hash
    [] req.table = "rule_sets" -> req.rows[1].rules
    [] OTHER -> req.rows[1].tags

RaceInit ==
  /\ backend = "remote"
  /\ pool = {}
  /\ db = EmptyDb
  /\ seq = ZeroSeq
  /\ run = 1
  /\ archive = ArchiveTest
  /\ bundledFlag = FALSE
  /\ pc = [p \in Procs |-> "intern"]
  /\ existing = "none"
  /\ dictId = NULL
  /\ phase = 1
  /\ fi = 1
  /\ ei = [p \in Procs |-> 1]
  /\ \E t \in InternTables : batch \in [Procs -> RaceLists(t)]
  /\ cache = [p \in Procs |-> EmptyCache]
  /\ cur = [p \in Procs |-> [ids |-> <<>>, id |-> NULL, error |-> FALSE]]
  /\ attempt = 1
  /\ plan = <<>>
  /\ faults = 0
  /\ work = EmptyDb
  /\ dbAtStart = EmptyDb
  /\ prev = [archive |-> ArchiveTest, pc |-> "idle", faults |-> 0]
  /\ interned = {}
  /\ unstored = 0

RaceReq(p) == batch[p][ei[p]]

\* intern returns id to instance p, which goes on with its next value.
RaceReturn(p, id) ==
  /\ cur' = [cur EXCEPT ![p] = [ids |-> Append(@.ids, id), id |-> NULL,
                                error |-> FALSE]]
  /\ ei' = [ei EXCEPT ![p] = @ + 1]
  /\ pc' = [pc EXCEPT ![p] = IF ei[p] < Len(batch[p]) THEN "intern" ELSE "done"]

\* if (cache.has(value)) return cache.get(value); else the upsert is sent.
RaceLookup(p) ==
  /\ pc[p] = "intern"
  /\ IF KeyOf(RaceReq(p)) \in DOMAIN cache[p][RaceReq(p).table]
     THEN RaceReturn(p, cache[p][RaceReq(p).table][KeyOf(RaceReq(p))])
     ELSE pc' = [pc EXCEPT ![p] = "await"] /\ UNCHANGED <<cur, ei>>
  /\ UNCHANGED <<backend, pool, storeVars, cmdVars, existing, callVars, work,
                 dictId, phase, fi, batch, cache, interned, unstored>>

\* The store executes the upsert of instance p, one statement.
RaceUpsert(p) ==
  /\ pc[p] = "await"
  /\ \E r \in {Call(RaceReq(p), "ok", db, seq)} :
       /\ db' = r.db
       /\ seq' = r.seq
       /\ cur' = [cur EXCEPT ![p] = [ids |-> @.ids, id |-> r.id, error |-> r.error]]
  /\ pc' = [pc EXCEPT ![p] = "answer"]
  /\ UNCHANGED <<backend, pool, cmdVars, existing, callVars, work, dictId,
                 phase, fi, ei, batch, cache, interned, unstored>>

\* The answer reaches instance p: if (error || !data) throw; else
\* cache.set(value, data.id); return data.id.
RaceAnswer(p) ==
  /\ pc[p] = "answer"
  /\ IF cur[p].error \/ cur[p].id = NULL
     THEN pc' = [pc EXCEPT ![p] = "failed"] /\ UNCHANGED <<cur, ei, cache>>
     ELSE /\ RaceReturn(p, DataId(cur[p]))
          /\ cache' = [cache EXCEPT ![p][RaceReq(p).table] =
                         (KeyOf(RaceReq(p)) :> DataId(cur[p])) @@ @]
  /\ UNCHANGED <<backend, pool, storeVars, cmdVars, existing, callVars, work,
                 dictId, phase, fi, batch, interned, unstored>>

RaceNext == \E p \in Procs : RaceLookup(p) \/ RaceUpsert(p) \/ RaceAnswer(p)

SpecRace == RaceInit /\ [][RaceNext]_vars

\* ------------------------------- the entry stream (streamZipBankFiles)
\* One call of streamZipBankFiles(path, callback) on the zip of `archive`,
\* made by processor Kinds[phase].  Here fi is the number of entries the zip
\* has emitted, ei the number of zipFile.readEntry() requests it has not
\* answered yet, cur the set of "entry" handlers that have not returned,
\* and pc the state of the promise.
OtherEntry == [kind |-> "other", n |-> 0, parses |-> FALSE, entries |-> <<>>]
IndexEntry == [kind |-> "index", n |-> 0, parses |-> TRUE, entries |-> <<>>]

\* The entries of the zip of archive a, in zip order.
ZipEntries(a) ==
  (IF a.hasIndex THEN <<IndexEntry>> ELSE <<>>) \o a.files \o <<OtherEntry>>

\* name.startsWith("term_bank_") || .. || name.startsWith("kanji_meta_bank_")
isBank(entry) == entry.kind \in KindSet

\* A handler that asks for the next entry as soon as it has its own.
ReadAhead(entry) == 1

\* The zipFile.readEntry() calls the "entry" handler makes before its first
\* await: none for a bank file, one for any other entry.
ReadEntryNow(entry) == IF isBank(entry) THEN 0 ELSE 1

StreamInit ==
  /\ backend = "remote"
  /\ pool = Archives \cup BadArchives
  /\ db = EmptyDb /\ seq = ZeroSeq /\ work = EmptyDb /\ dbAtStart = EmptyDb
  /\ run = 1
  /\ archive \in {a \in pool : a.readable}
  /\ bundledFlag = FALSE
  /\ pc = "closed"
  /\ existing = "none"
  /\ dictId = NULL
  /\ phase \in 1..Len(Kinds)
  /\ fi = 0
  /\ ei = 0
  /\ batch = <<>>
  /\ cache = EmptyCache
  /\ cur = {}
  /\ attempt = 1 /\ plan = <<>> /\ faults = 0
  /\ prev = [archive |-> ArchiveTest, pc |-> "idle", faults |-> 0]
  /\ interned = {}
  /\ unstored = 0

streamVars == <<pc, fi, ei, cur>>
notStreamVars ==
  <<backend, pool, storeVars, cmdVars, existing, callVars, work, dictId, phase,
    batch, cache, interned, unstored>>

\* yauzl.open(path, {lazyEntries: true}, ..): zipFile.readEntry()
StreamOpen ==
  /\ pc = "closed"
  /\ pc' = "pending"
  /\ ei' = 1
  /\ UNCHANGED <<fi, cur>>
  /\ UNCHANGED notStreamVars

\* The zip answers one readEntry() request with its next entry: the
\* handler of that entry starts, and runs up to its first await.
StreamEntry ==
  /\ pc \in {"pending", "rejected"} /\ ei > 0 /\ fi < Len(ZipEntries(archive))
  /\ \E entry \in {ZipEntries(archive)[fi + 1]} :
       /\ fi' = fi + 1
       /\ ei' = ei - 1 + ReadEntryNow(entry)
       /\ cur' = IF isBank(entry)
                 THEN cur \cup {[entry |-> fi + 1, at |-> "readEntry", held |-> FALSE]}
                 ELSE cur
  /\ UNCHANGED pc
  /\ UNCHANGED notStreamVars

\* const content = await readEntry(zipFile, entry): the content is read
\* whole, the callback is called with it.
StreamRead ==
  /\ \E h \in {x \in cur : x.at = "readEntry"} :
       cur' = (cur \ {h}) \cup {[h EXCEPT !.at = "callback", !.held = TRUE]}
  /\ UNCHANGED <<pc, fi, ei>>
  /\ UNCHANGED notStreamVars

\* await callback(name, content) returns: the handler has asked for the
\* next entry before (ReadAhead) or asks now; or the callback throws:
\* return reject(e), with no request for another entry.
StreamCallback ==
  /\ \E h \in {x \in cur : x.at = "callback"} : \E thrown \in BOOLEAN :
       /\ cur' = cur \ {h}
       /\ ei' = IF thrown THEN ei
                 ELSE ei + 1 - ReadEntryNow(ZipEntries(archive)[h.entry])
       /\ pc' = IF thrown /\ pc = "pending" THEN "rejected" ELSE pc
  /\ UNCHANGED fi
  /\ UNCHANGED notStreamVars

\* zipFile.on("end", () => resolve()): a request past the last entry.
StreamEnd ==
  /\ pc = "pending" /\ ei > 0 /\ fi = Len(ZipEntries(archive))
  /\ pc' = "resolved"
  /\ ei' = ei - 1
  /\ UNCHANGED <<fi, cur>>
  /\ UNCHANGED notStreamVars

StreamNext == StreamOpen \/ StreamEntry \/ StreamRead \/ StreamCallback \/ StreamEnd

SpecStream == StreamInit /\ [][StreamNext]_vars

\* ------------------------------------------------ one call of withRetry
\* withRetry(fn, context) alone, for any fn.  Here batch is the outcomes of
\* the calls of fn so far ([thrown, value]), cur.waits the delays waited
\* and cur.settled how the promise of withRetry settled, attempt the loop
\* variable, pc the place in the loop.
FnResults == {"data", "error", "null"}
FnErrors == {"fetch", "timeout", "abort", "reset"}
FnOutcomes ==
  {[thrown |-> FALSE, value |-> v] : v \in FnResults}
    \cup {[thrown |-> TRUE, value |-> e] : e \in FnErrors}

RetryInit ==
  /\ backend = "remote"
  /\ pool = {}
  /\ db = EmptyDb /\ seq = ZeroSeq /\ work = EmptyDb /\ dbAtStart = EmptyDb
  /\ run = 1
  /\ archive = ArchiveTest
  /\ bundledFlag = FALSE
  /\ pc = "call"
  /\ existing = "none"
  /\ dictId = NULL
  /\ phase = 1 /\ fi = 1 /\ ei = 1
  /\ batch = <<>>
  /\ cache = EmptyCache
  /\ cur = [waits |-> <<>>, settled |-> "pending", value |-> "none"]
  /\ attempt = 1 /\ plan = <<>> /\ faults = 0
  /\ prev = [archive |-> ArchiveTest, pc |-> "idle", faults |-> 0]
  /\ interned = {}
  /\ unstored = 0

notRetryVars ==
  <<backend, pool, storeVars, cmdVars, existing, plan, faults, work, dictId,
    phase, fi, ei, cache, interned, unstored>>

\* try { return await fn() } catch (err) { lastError = err; .. }: after the
\* loop, throw lastError.
RetryCall ==
  /\ pc = "call"
  /\ \E r \in FnOutcomes : \E w \in {withRetry(r, attempt)} :
       /\ batch' = Append(batch, r)
       /\ pc' = CASE w = "return" -> "returned"
                  [] w = "again" -> "wait"
                  [] w = "throw" -> "thrown"
       /\ cur' = IF w = "again" THEN cur
                 ELSE [cur EXCEPT !.settled = IF w = "return" THEN "resolved" ELSE "rejected",
                                  !.value = r.value]
  /\ UNCHANGED attempt
  /\ UNCHANGED notRetryVars

\* await new Promise((resolve) => setTimeout(resolve, delay)); attempt++
RetryWait ==
  /\ pc = "wait"
  /\ cur' = [cur EXCEPT !.waits = Append(@, Delay(attempt))]
  /\ attempt' = attempt + 1
  /\ pc' = "call"
  /\ UNCHANGED batch
  /\ UNCHANGED notRetryVars

RetryNext == RetryCall \/ RetryWait

SpecRetry == RetryInit /\ [][RetryNext]_vars

\* ------------------------------------- two importers of one dictionary
\* Two processes of the remote importer import the same archive at once,
\* each from its existence check on.  Here pc, bundledFlag, existing,
\* dictId, attempt, plan, cur and batch hold one value per process: cur[p]
\* how the registration of p was answered, batch[p] the bank rows p has
\* sent to the store.
RegArchive == ArchiveTags

RegInit ==
  /\ backend = "remote"
  /\ pool = {}
  /\ db = EmptyDb /\ seq = ZeroSeq /\ work = EmptyDb /\ dbAtStart = EmptyDb
  /\ run = 1
  /\ archive = RegArchive
  /\ bundledFlag \in [Procs -> BOOLEAN]
  /\ pc = [p \in Procs |-> "check"]
  /\ existing = [p \in Procs |-> "unset"]
  /\ dictId = [p \in Procs |-> NULL]
  /\ phase = 1 /\ fi = 1 /\ ei = 1
  /\ batch = [p \in Procs |-> <<>>]
  /\ cache = EmptyCache
  /\ cur = [p \in Procs |-> "unanswered"]
  /\ attempt = [p \in Procs |-> 1]
  /\ plan = [p \in Procs |-> <<>>]
  /\ faults = 0
  /\ prev = [archive |-> RegArchive, pc |-> "idle", faults |-> 0]
  /\ interned = {}
  /\ unstored = 0

notRegVars ==
  <<backend, pool, work, run, archive, dbAtStart, prev, phase, fi, ei, cache, interned, unstored>>

\* What the next attempt of a call of process p may meet.
RegPlans(p) ==
  IF attempt[p] = 1 THEN {sc \in Scenarios : sc = <<>> \/ faults < MaxFaults}
  ELSE {plan[p]}

RegAttempted(p, sc, w) ==
  /\ attempt' = [attempt EXCEPT ![p] = IF w = "again" THEN @ + 1 ELSE 1]
  /\ plan' = [plan EXCEPT ![p] = IF w = "again" THEN Rest(sc) ELSE <<>>]
  /\ faults' = faults + (IF attempt[p] = 1 THEN Met(sc) ELSE 0)

\* "Skip if already installed", by process p.
RegCheck(p) ==
  /\ pc[p] = "check"
  /\ \E sc \in RegPlans(p) :
     \E r \in {Call(SelectReq("dictionaries", IndexKey), KindAt(sc), db, seq)} :
       /\ pc' = [pc EXCEPT ![p] = IF Direct(r, attempt[p]) = "throw" THEN "failed"
                                  ELSE IF Existing(r) THEN "skipped" ELSE "register"]
       /\ existing' = [existing EXCEPT ![p] =
                         IF Direct(r, attempt[p]) = "throw" THEN @ ELSE Found(r)]
       /\ db' = r.db
       /\ seq' = r.seq
       /\ RegAttempted(p, sc, Direct(r, attempt[p]))
  /\ UNCHANGED <<dictId, cur, batch, bundledFlag>>
  /\ UNCHANGED notRegVars

\* "Register dictionary", by process p: if (dictErr || !dict) throw.
RegRegister(p) ==
  /\ pc[p] = "register"
  /\ \E sc \in RegPlans(p) :
     \E r \in {Call(InsertReq("dictionaries",
                              << [title |-> archive.title,
                                  revision |-> archive.revision,
                                  is_bundled |-> bundledFlag[p]] >>),
                    KindAt(sc), db, seq)} :
       LET bad == Direct(r, attempt[p]) = "throw" \/ r.error \/ r.id = NULL
       IN /\ pc' = [pc EXCEPT ![p] = IF bad THEN "failed" ELSE "tags"]
          /\ dictId' = [dictId EXCEPT ![p] = IF bad THEN NULL ELSE r.id]
          /\ cur' = [cur EXCEPT ![p] = IF bad THEN "rejected" ELSE "registered"]
          /\ db' = r.db
          /\ seq' = r.seq
          /\ RegAttempted(p, sc, Direct(r, attempt[p]))
  /\ UNCHANGED <<existing, batch, bundledFlag>>
  /\ UNCHANGED notRegVars

\* The tag rows of the archive, for the Dictionary row dict.
RegRows(dict) ==
  [i \in 1..Len(RegArchive.files[1].entries) |->
     BankRow("tags", RegArchive.files[1].entries[i], dict, NoIds)]

\* processTagsStreaming of process p: the rows of the tag bank are written
\* in one insert under withRetry, whose answer is not read.
RegTags(p) ==
  /\ pc[p] = "tags"
  /\ \E sc \in RegPlans(p) :
     \E r \in {Call(InsertReq("tags", RegRows(dictId[p])), KindAt(sc), db, seq)} :
       LET w == withRetry(r, attempt[p])
       IN /\ pc' = [pc EXCEPT ![p] = CASE w = "again" -> "tags"
                                       [] w = "throw" -> "failed"
                                       [] OTHER -> "done"]
          /\ batch' = [batch EXCEPT ![p] = @ \o RegRows(dictId[p])]
          /\ db' = r.db
          /\ seq' = r.seq
          /\ RegAttempted(p, sc, w)
  /\ UNCHANGED <<existing, dictId, cur, bundledFlag>>
  /\ UNCHANGED notRegVars

RegNext == \E p \in Procs : RegCheck(p) \/ RegRegister(p) \/ RegTags(p)

SpecReg == RegInit /\ [][RegNext]_vars

\* ------------------------------- the lookup script (select-terms.js)
\* The value row x of interning table t stands for.
ValueOf(t, x) ==
  CASE t = "glossaries" -> x.hash
    [] t = "rule_sets" -> x.rules
    [] OTHER -> x.tags

\* The tags / rules column of the row LEFT JOINed by id: NULL when there is
\* none, which the query of the embedded backend COALESCEs to ''.
Joined(d, t, id) ==
  IF \E x \in d[t] : x.id = id
  THEN Str(ValueOf(t, CHOOSE x \in d[t] : x.id = id))
  ELSE IF backend = "remote" THEN JsNull ELSE Str(<<>>)

\* The command-line lookup of the embedded store.  Here db is the store it
\* reads, batch the arguments of the command line, cur the term and reading
\* it took from them and the rows the query returned, pc its place.
SelArgTexts == {"neko", "inu", ""}
SelDbPath == "other.db"

\* args.at(-1)?.endsWith(".db")
EndsWithDb(a) == a = SelDbPath

\* The command lines: no, one or two arguments, then the db path or not.
SelArgLists ==
  UNION {{<<>>}, {<<a>> : a \in SelArgTexts},
         {<<a, b>> : a \in SelArgTexts, b \in SelArgTexts}}
SelCommandLines ==
  SelArgLists \cup {Append(a, SelDbPath) : a \in SelArgLists}

\* Term rows of the store: a kanji word with its reading, kana words whose
\* reading is the empty string, two rows of equal score.
SelEntries ==
  << TermEntry("neko_kanji", "neko", JsNull, Str(<<>>), 100, <<"cat">>, 1, JsNull),
     TermEntry("neko", "", JsNull, Str(<<>>), 7, <<"cat">>, 2, JsNull),
     TermEntry("inu", "", JsNull, Str(<<>>), 5, <<"cat">>, 3, JsNull),
     TermEntry("inu_kanji", "inu", JsNull, Str(<<>>), 5, <<"cat">>, NULL, JsNull) >>

SelBase ==
  InsertRow(InsertRow(EmptyDb, "dictionaries",
                      [title |-> "Test", revision |-> "1", is_bundled |-> TRUE], 1),
            "glossaries",
            [hash |-> sha1(JSONStringify(<<"cat">>)),
             content |-> JSONStringify(<<"cat">>)], 1)

SelStore(ks) ==
  [SelBase EXCEPT !["terms"] =
     {[id |-> k] @@ TermRow(SelEntries[k], 1,
                            [glossary |-> 1, defTags |-> NULL, rules |-> NULL,
                             termTags |-> NULL]) : k \in ks}]

NoReading == [given |-> FALSE, s |-> ""]

SelInit ==
  /\ backend = "sqlite"
  /\ pool = {}
  /\ \E ks \in SUBSET (1..Len(SelEntries)) : db = SelStore(ks)
  /\ seq = ZeroSeq /\ work = EmptyDb /\ dbAtStart = EmptyDb
  /\ run = 1
  /\ archive = ArchiveTest
  /\ bundledFlag = FALSE
  /\ pc = "args"
  /\ existing = "none"
  /\ dictId = NULL
  /\ phase = 1 /\ fi = 1 /\ ei = 1
  /\ batch \in SelCommandLines
  /\ cache = EmptyCache
  /\ cur = [term |-> "", reading |-> NoReading, rows |-> <<>>]
  /\ attempt = 1 /\ plan = <<>> /\ faults = 0
  /\ prev = [archive |-> ArchiveTest, pc |-> "idle", faults |-> 0]
  /\ interned = {}
  /\ unstored = 0

notSelVars ==
  <<backend, pool, storeVars, cmdVars, existing, callVars, work, dictId,
    phase, fi, ei, batch, cache, interned, unstored>>

\* const dbPath = args.at(-1)?.endsWith(".db") ? args.pop() : DEFAULT_DB_PATH
SelArgs ==
  IF batch # <<>> /\ EndsWithDb(batch[Len(batch)])
  THEN SubSeq(batch, 1, Len(batch) - 1) ELSE batch

\* const [term = "田中", reading = null] = args
SelTerm == IF Len(SelArgs) >= 1 THEN SelArgs[1] ELSE "tanaka"
SelReading ==
  IF Len(SelArgs) >= 2 THEN [given |-> TRUE, s |-> SelArgs[2]] ELSE NoReading

SelectArgs ==
  /\ pc = "args"
  /\ cur' = [cur EXCEPT !.term = SelTerm, !.reading = SelReading]
  /\ pc' = "query"
  /\ UNCHANGED notSelVars

\* reading ? `WHERE t.term = ? AND t.reading = ?`
\*         : `WHERE t.term = ? OR t.reading = ?`: null and "" are falsy.
whereClause(reading) == reading.given /\ reading.s # ""

\* .all(term, reading ?? term)
SelMatches(x, term, reading) ==
  LET second == IF reading.given THEN reading.s ELSE term
  IN IF whereClause(reading)
     THEN x.term = term /\ x.reading = second
     ELSE x.term = term \/ x.reading = second

\* The rows of the SELECT, before ORDER BY.
SelRows(d, term, reading) ==
  {[of |-> j[1].id, term |-> j[1].term, reading |-> j[1].reading,
    score |-> j[1].score, sequence |-> j[1].sequence,
    glossary_json |-> j[3].content,
    def_tags |-> Joined(d, "def_tag_sets", j[1].def_tags_id),
    term_tags |-> Joined(d, "term_tag_sets", j[1].term_tags_id),
    rules |-> Joined(d, "rule_sets", j[1].rules_id),
    dict_title |-> j[2].title] :
     j \in {k \in {x \in d["terms"] : SelMatches(x, term, reading)}
                   \X d["dictionaries"] \X d["glossaries"] :
              k[2].id = k[1].dict_id /\ k[3].id = k[1].glossary_id}}

\* ORDER BY t.score DESC: the orders of the rows S by falling score, rows
\* of equal score in any order.
OrderByScoreDesc(S) ==
  {s \in [1..Cardinality(S) -> S] :
     /\ \A i \in 1..Cardinality(S) : \A j \in 1..Cardinality(S) :
          (i < j) => (s[i] # s[j] /\ s[i].score >= s[j].score)}

SelectQuery ==
  /\ pc = "query"
  /\ \E rows \in OrderByScoreDesc(SelRows(db, cur.term, cur.reading)) :
       cur' = [cur EXCEPT !.rows = rows]
  /\ pc' = "shown"
  /\ UNCHANGED notSelVars

SelNext == SelectArgs \/ SelectQuery

SpecSelect == SelInit /\ [][SelNext]_vars

\* ------------------------------------------- the search page (Search.vue)
\* Here cur holds the refs and variables of the page (q, prevQ,
\* clipboardCurrentText, rowsShown, requestId, and searchTimeout: whether a
\* timeout is pending), batch is entries, interned the requests of
\* search_terms not answered yet, run whether the user has changed
\* anything, faults whether a response was dropped as stale.
QueryTexts == {<<>>, <<"a">>, <<"a", " ">>, <<"b">>}

\* q.value.trim().replace(..) + (q.value.endsWith(" ") ? "" : "%"): the
\* trimmed text, as a prefix pattern unless q ends with a space.
QTerm(q) ==
  [text |-> Trim(q), prefix |-> ~(q # <<>> /\ q[Len(q)] = " ")]

\* The rows of the store that match a pattern, in the order of the query.
TotalRows(qTerm) ==
  IF qTerm.prefix THEN (IF qTerm.text = <<"a">> THEN 2 * maxRows + 1 ELSE maxRows + 1)
  ELSE 1

\* search_terms(qTerm, qReading, limit, offset): LIMIT limit OFFSET offset
\* of the rows that match.
searchTerms(qTerm, limit, offset) ==
  LET last == IF offset + limit < TotalRows(qTerm) THEN offset + limit
              ELSE TotalRows(qTerm)
  IN [i \in 1..(IF last > offset THEN last - offset ELSE 0) |->
        [qTerm |-> qTerm, n |-> offset + i]]

SearchInit ==
  /\ backend = "sqlite"
  /\ pool = {}
  /\ db = EmptyDb /\ seq = ZeroSeq /\ work = EmptyDb /\ dbAtStart = EmptyDb
  /\ run = 0
  /\ archive = ArchiveTest
  /\ bundledFlag = FALSE
  /\ pc = "mounted"
  /\ existing = "none"
  /\ dictId = NULL
  /\ phase = 1 /\ fi = 1 /\ ei = 1
  /\ batch = <<>>
  /\ cache = EmptyCache
  /\ \E q0 \in QueryTexts :
       cur = [q |-> q0, prevQ |-> <<>>, clipboardCurrentText |-> <<>>,
              rowsShown |-> maxRows, requestId |-> 0, searchTimeout |-> FALSE]
  /\ attempt = 1 /\ plan = <<>> /\ faults = 0
  /\ prev = [archive |-> ArchiveTest, pc |-> "idle", faults |-> 0]
  /\ interned = {}
  /\ unstored = 0

notSearchVars ==
  <<backend, pool, storeVars, archive, bundledFlag, dbAtStart, prev, existing,
    attempt, plan, work, dictId, phase, fi, ei, cache, unstored, pc>>

\* doSearch(), the page's variables being c: the pending timeout is
\* cleared; an empty q empties entries; a q equal to prevQ returns; else
\* prevQ is set and a timeout of 250 ms is started.
doSearch(c) ==
  /\ cur' = IF c.q = <<>> \/ c.prevQ = c.q
            THEN [c EXCEPT !.searchTimeout = FALSE]
            ELSE [c EXCEPT !.prevQ = c.q, !.searchTimeout = TRUE]
  /\ batch' = IF c.q = <<>> THEN <<>> ELSE batch
  /\ UNCHANGED interned

\* runSearch(isNew), the page's variables being c: the request is sent with
\* thisRequest = ++requestId.
runSearch(isNew, c) ==
  /\ cur' = [c EXCEPT !.requestId = @ + 1]
  /\ interned' = interned \cup
       {[thisRequest |-> c.requestId + 1, qTerm |-> QTerm(c.q),
         offset |-> IF isNew THEN 0 ELSE Len(batch), isNew |-> isNew]}
  /\ UNCHANGED batch

\* The user edits the text field: v-model sets q, watch(q) calls doSearch.
SearchType ==
  /\ \E v \in QueryTexts \ {cur.q} : doSearch([cur EXCEPT !.q = v])
  /\ run' = 1
  /\ UNCHANGED faults
  /\ UNCHANGED notSearchVars

\* The form is submitted, or the icon clicked: doSearch.
SearchSubmit ==
  /\ doSearch(cur)
  /\ run' = 1
  /\ UNCHANGED faults
  /\ UNCHANGED notSearchVars

\* The clipboard poll reads a new non-empty text: q and
\* clipboardCurrentText are set to it; watch(q) runs when q changed.
SearchClipboard ==
  /\ \E v \in QueryTexts \ {<<>>, cur.clipboardCurrentText} :
       IF v # cur.q
       THEN doSearch([cur EXCEPT !.q = v, !.clipboardCurrentText = v])
       ELSE /\ cur' = [cur EXCEPT !.clipboardCurrentText = v]
            /\ UNCHANGED <<batch, interned>>
  /\ run' = 1
  /\ UNCHANGED faults
  /\ UNCHANGED notSearchVars

\* The timeout of doSearch fires: runSearch(true).
SearchTimeout ==
  /\ cur.searchTimeout
  /\ cur.requestId < MaxRequests
  /\ runSearch(TRUE, [cur EXCEPT !.searchTimeout = FALSE])
  /\ UNCHANGED <<run, faults>>
  /\ UNCHANGED notSearchVars

\* The button "More...", shown while rowsShown < entries.length:
\* rowsShown += maxRows; runSearch().
SearchMore ==
  /\ cur.rowsShown < Len(batch)
  /\ cur.requestId < MaxRequests
  /\ runSearch(FALSE, [cur EXCEPT !.rowsShown = @ + maxRows])
  /\ UNCHANGED <<run, faults>>
  /\ UNCHANGED notSearchVars

\* A response applied whatever was requested since.
StaleNever(r) == FALSE

\* if (thisRequest !== requestId) return; // stale
Stale(r) == r.thisRequest # cur.requestId

\* The response of a request arrives: a stale one is dropped; the rows of
\* a new search replace entries and reset rowsShown, the rows of a "More"
\* are appended.
SearchResponse ==
  /\ \E r \in interned :
       \E rs \in {searchTerms(r.qTerm, maxRows + 1, r.offset)} :
         /\ interned' = interned \ {r}
         /\ batch' = IF Stale(r) THEN batch
                     ELSE IF r.isNew THEN rs ELSE batch \o rs
         /\ cur' = IF ~Stale(r) /\ r.isNew THEN [cur EXCEPT !.rowsShown = maxRows]
                   ELSE cur
         /\ faults' = IF Stale(r) THEN 1 ELSE faults
  /\ UNCHANGED run
  /\ UNCHANGED notSearchVars

SearchNext ==
  \/ SearchType \/ SearchSubmit \/ SearchClipboard
  \/ SearchTimeout \/ SearchMore \/ SearchResponse

SpecSearch == SearchInit /\ [][SearchNext]_vars

\* -------------------------------- the MongoDB-to-SQLite builder (buildSQLite)
\* One batching loop of buildSQLite.  Here cur holds the collection read
\* (col, records), the number of records read (i), the row lists the calls
\* of tr wrote (txns) and the longest the buffer has been (peak); batch is
\* the buffer rs; pc is "read" inside the loop, "done" after the last tr.
\* A record of jmne is the list of its kana, TRUE for one whose
\* appliesToKanji names a kanji; a record of kanji is <<>>.
KanaLists == {<<FALSE>>, <<TRUE>>, <<TRUE, FALSE>>, <<TRUE, TRUE>>}

BuildCollections(col) ==
  UNION {[1..n -> IF col = "jmne" THEN KanaLists ELSE {<<>>}] : n \in 0..MaxRecords}

\* The rows the loop body pushes for the i-th record r: for kanji one row;
\* for jmne one row per kana that applies to named kanji, then one row for
\* the kana left, if any.
Pushed(col, r, i) ==
  IF col = "kanji" THEN << [of |-> i, k |-> 1] >>
  ELSE LET named == SelectSeq(r, LAMBDA a : a)
           rest == SelectSeq(r, LAMBDA a : ~a)
       IN [j \in 1..Len(named) |-> [of |-> i, k |-> j]]
            \o (IF rest # <<>> THEN << [of |-> i, k |-> Len(named) + 1] >> ELSE <<>>)

BuildInit ==
  /\ backend = "sqlite"
  /\ pool = {}
  /\ db = EmptyDb /\ seq = ZeroSeq /\ work = EmptyDb /\ dbAtStart = EmptyDb
  /\ run = 1
  /\ archive = ArchiveTest
  /\ bundledFlag = FALSE
  /\ pc = "read"
  /\ existing = "none"
  /\ dictId = NULL
  /\ phase = 1 /\ fi = 1 /\ ei = 1
  /\ batch = <<>>
  /\ cache = EmptyCache
  /\ \E col \in {"kanji", "jmne"} : \E records \in BuildCollections(col) :
       cur = [col |-> col, records |-> records, i |-> 0, txns |-> <<>>, peak |-> 0]
  /\ attempt = 1 /\ plan = <<>> /\ faults = 0
  /\ prev = [archive |-> ArchiveTest, pc |-> "idle", faults |-> 0]
  /\ interned = {}
  /\ unstored = 0

notBuildVars ==
  <<backend, pool, storeVars, cmdVars, existing, callVars, work, dictId,
    phase, fi, ei, cache, interned, unstored>>

\* The body of for await (const r of col.find()): rs.push(..);
\* if (rs.length > BATCH) tr(rs.splice(0, BATCH)).
BuildRead ==
  /\ pc = "read" /\ cur.i < Len(cur.records)
  /\ \E rs \in {batch \o Pushed(cur.col, cur.records[cur.i + 1], cur.i + 1)} :
       /\ batch' = IF Len(rs) > BATCH THEN SubSeq(rs, BATCH + 1, Len(rs)) ELSE rs
       /\ cur' = [cur EXCEPT !.i = @ + 1,
                             !.peak = IF Len(rs) > @ THEN Len(rs) ELSE @,
                             !.txns = IF Len(rs) > BATCH
                                      THEN Append(@, SubSeq(rs, 1, BATCH)) ELSE @]
  /\ UNCHANGED pc
  /\ UNCHANGED notBuildVars

\* After the loop: tr(rs).
BuildFlush ==
  /\ pc = "read" /\ cur.i = Len(cur.records)
  /\ cur' = [cur EXCEPT !.txns = Append(@, batch)]
  /\ pc' = "done"
  /\ UNCHANGED batch
  /\ UNCHANGED notBuildVars

BuildNext == BuildRead \/ BuildFlush

SpecBuild == BuildInit /\ [][BuildNext]_vars

\* --------------------------------------------------------------- claims
\* The Dictionary rows of store d with the (title, revision) of archive a.
DictRowsOf(d, a) ==
  {x \in d["dictionaries"] : x.title = a.title /\ x.revision = a.revision}

\* The step is the last attempt of a batch write of the remote importer
\* under withRetry, every attempt of which was rejected: the command ends
\* in the fatal error.
BatchWriteAborts ==
  /\ backend = "remote"
  /\ pc \in {"flush", "final"} /\ batch # <<>>
  /\ attempt = MAX_RETRIES
  /\ pc' = "failed"

\* C3: when a remote batch write fails on every attempt and aborts the
\* import, the store is left without a Dictionary row of the archive's
\* (title, revision), so that the check of the next run does not find it.
C3_AbortLeavesNotInstalled ==
  [][BatchWriteAborts => DictRowsOf(db', archive) = {}]_vars

\* C4: on the remote backend the import never goes on, and never ends
\* with success, after a batch write that stored no row: once a batch was
\* not stored the command is in the fatal error.
C4_UnstoredBatchIsFatal ==
  (backend = "remote" /\ unstored > 0) => pc = "failed"

\* The number of records of the term banks among the first k files.
RECURSIVE SumLen(_, _)
SumLen(files, k) ==
  IF k = 0 THEN 0
  ELSE SumLen(files, k - 1)
         + (IF files[k].kind = "terms" THEN Len(files[k].entries) ELSE 0)

TermsOf(d, dict) == {x \in d["terms"] : x.dict_id = dict}

\* C5: after a successful import the number of Term rows of the new
\* dictionary is the sum of the lengths of the term banks of the archive.
C5_TermCount ==
  pc = "done" =>
    Cardinality(TermsOf(db, dictId)) = SumLen(archive.files, Len(archive.files))

\* Every reference of the rows of store d resolves in d.
RefsResolve(d) ==
  /\ \A x \in d["terms"] :
       /\ \E y \in d["dictionaries"] : y.id = x.dict_id
       /\ \E y \in d["glossaries"] : y.id = x.glossary_id
       /\ x.def_tags_id # NULL => \E y \in d["def_tag_sets"] : y.id = x.def_tags_id
       /\ x.rules_id # NULL => \E y \in d["rule_sets"] : y.id = x.rules_id
       /\ x.term_tags_id # NULL => \E y \in d["term_tag_sets"] : y.id = x.term_tags_id
  /\ \A t \in {"term_meta", "tags", "kanji", "kanji_meta"} :
       \A x \in d[t] : \E y \in d["dictionaries"] : y.id = x.dict_id

\* The rows waiting in the batch of the remote importer reference rows that
\* are stored already.
BatchResolved ==
  \A i \in 1..Len(batch) :
    /\ \E y \in db["dictionaries"] : y.id = batch[i].dict_id
    /\ Kind = "terms" =>
         /\ \E y \in db["glossaries"] : y.id = batch[i].glossary_id
         /\ batch[i].def_tags_id # NULL
              => \E y \in db["def_tag_sets"] : y.id = batch[i].def_tags_id
         /\ batch[i].rules_id # NULL
              => \E y \in db["rule_sets"] : y.id = batch[i].rules_id
         /\ batch[i].term_tags_id # NULL
              => \E y \in db["term_tag_sets"] : y.id = batch[i].term_tags_id

\* C9: in every state every stored Term row references an existing
\* Dictionary row, an existing Glossary row and, where not null, existing
\* rows of the interning tables; every dependent row references an existing
\* Dictionary row; and a row is made for writing only after the rows it
\* references are stored (in the transaction, for the embedded importer).
C9_ReferencesResolve ==
  /\ RefsResolve(db)
  /\ backend = "sqlite" /\ pc \in {"txn", "commit"} => RefsResolve(work)
  /\ backend = "remote" => BatchResolved

\* Term rows with each of the optional references, and without one, and a
\* dependent row of another table are stored.
C9_TermsStored ==
  /\ \E x \in db["terms"] : x.def_tags_id # NULL
  /\ \E x \in db["terms"] : x.rules_id # NULL
  /\ \E x \in db["terms"] : x.term_tags_id # NULL
  /\ \E x \in db["terms"] : x.def_tags_id = NULL
  /\ db["tags"] # {}

\* The rows of table t of store d that hold value key.
RowsOfValue(d, t, key) == {x \in d[t] : ValueOf(t, x) = key}

\* The answers the interner gave so far for table t.
AnswersOf(t) == {a \in interned : a.table = t}

\* The content column of the Glossary row of content c: the remote
\* importer stores the array (jsonb), the embedded one its JSON text.
GlossaryShown(c) == IF backend = "remote" THEN c ELSE JSONStringify(c)

\* The Term rows of the store that came from a record of an archive
\* reference the Glossary row holding the content of that record.
TermsShowTheirGlossary ==
  \A a \in pool : \A d \in DictRowsOf(db, a) : \A x \in TermsOf(db, d.id) :
    \A k \in 1..Len(a.files) :
      a.files[k].kind = "terms" =>
        \A i \in 1..Len(a.files[k].entries) :
          (a.files[k].entries[i].term = x.term
             /\ a.files[k].entries[i].score = x.score) =>
            \E g \in db["glossaries"] :
              /\ g.id = x.glossary_id
              /\ g.content = GlossaryShown(a.files[k].entries[i].glossary)

TagRuleTables == {"def_tag_sets", "term_tag_sets", "rule_sets"}

\* C7: the interner answers the same tag or rule string with the same id
\* every time, within one run and in a later run that starts with empty
\* caches.
C7_SameIdAgain ==
  \A t \in TagRuleTables : \A a, b \in AnswersOf(t) : a.key = b.key => a.id = b.id

\* A string was interned in two runs, and a string interned before in this
\* run is answered from the cache.
C7_InternedAgain ==
  /\ \E t \in TagRuleTables : \E a, b \in AnswersOf(t) : a.key = b.key /\ a.run # b.run
  /\ \E t \in TagRuleTables : \E a \in AnswersOf(t) :
       a.run = run /\ a.key \in DOMAIN cache[t]

\* C10: in every run no row of any table is inserted before the existence
\* check has completed, and when the check finds the pair no row is
\* inserted at all: the store differs from the store at the start of the
\* run only after a check that found nothing.
C10_CheckBeforeWrite ==
  /\ existing \in {"unset", "found"} => db = dbAtStart
  /\ backend = "sqlite" /\ existing \in {"unset", "found"} => work = dbAtStart
  /\ pc = "skipped" <=> existing = "found"

\* The check of a second run found the pair and the run ended; the check of
\* some run found nothing and rows were written after it.
C10_CheckedThenSkipped ==
  /\ run = 2 /\ pc = "skipped" /\ existing = "found"
  /\ db["terms"] # {} /\ db = dbAtStart

\* C2: when the destination holds a Dictionary row with the (title,
\* revision) of the archive, the import inserts no row in any table, the
\* stored state is unchanged, and the command ends with exit code 0 (the
\* store answering its calls).
C2_InstalledIsNoOp ==
  (pc # "idle" /\ DictRowsOf(dbAtStart, archive) # {}) =>
    /\ db = dbAtStart
    /\ backend = "sqlite" => work = dbAtStart
    /\ (pc \in Ended /\ faults = prev.faults) => pc = "skipped" /\ ExitCode(pc) = 0

\* An import of an installed archive ended, into a store with rows.
C2_InstalledSkipped ==
  /\ DictRowsOf(dbAtStart, archive) # {} /\ dbAtStart["terms"] # {}
  /\ pc \in Ended /\ faults = prev.faults /\ ExitCode(pc) = 0

\* C1: a second complete run of the import of the same archive, after a
\* first one that ended with success, leaves exactly one Dictionary row of
\* its (title, revision) and every table as it was after the first run.
C1_SecondRunAddsNothing ==
  (run >= 2 /\ prev.pc = "done" /\ prev.archive = archive) =>
    /\ Cardinality(DictRowsOf(db, archive)) = 1
    /\ db = dbAtStart

\* The second run of the same archive ended, the first one having stored
\* terms, tags and glossaries.
C1_ImportedTwice ==
  /\ run >= 2 /\ prev.pc = "done" /\ prev.archive = archive /\ pc \in Ended
  /\ db["terms"] # {} /\ db["tags"] # {} /\ db["glossaries"] # {}

\* Instance p was returned an id for the i-th value it interned.
RaceAnswered(p, i) == i \in 1..Len(batch[p]) /\ i <= Len(cur[p].ids)

\* C8: two importer instances interning against the remote store, in any
\* interleaving of their cache lookups, upserts and answers: neither ends
\* in an error, the same value gets the same id in both, and the value an
\* id was returned for has exactly one row, with that id.
C8_RaceSameId ==
  /\ \A p \in Procs : pc[p] # "failed"
  /\ \A p, q \in Procs : \A i, j \in 1..2 :
       (RaceAnswered(p, i) /\ RaceAnswered(q, j) /\ batch[p][i] = batch[q][j])
         => cur[p].ids[i] = cur[q].ids[j]
  /\ \A p \in Procs : \A i \in 1..2 :
       RaceAnswered(p, i) =>
         RowsOfValue(db, batch[p][i].table, KeyOf(batch[p][i]))
           = {[id |-> cur[p].ids[i]] @@ batch[p][i].rows[1]}

\* Both instances ended, having interned the same value first, and an
\* upsert of one met the row of the other: the sequence of the table went
\* further than its rows.
C8_RaceMet ==
  /\ \A p \in Procs : pc[p] = "done"
  /\ batch[1][1] = batch[2][1]
  /\ cur[1].ids[1] = cur[2].ids[1]
  /\ seq[batch[1][1].table] > Cardinality(db[batch[1][1].table])

\* The step is the decoding of a bank file that fails: JSON.parse throws
\* and the command ends in the fatal error.
DecodeFails == pc \in {"file", "bank"} /\ pc' = "failed"

\* C11: when the decoding of a bank file fails, the import ends in the
\* fatal error and the store holds no partially imported dictionary: no
\* Dictionary row of the archive's (title, revision) remains.
C11_DecodeFailureLeavesNothing ==
  [][DecodeFails => DictRowsOf(db', archive) = {}]_vars

\* C12: an archive without index.json, or a path that is no zip, makes the
\* import end in the fatal error, with a non-zero exit code, and before
\* any write: once the archive was read the command is in the fatal error
\* and the store is as it was at the start.
C12_NoIndexIsFatal ==
  (pc \notin {"idle", "start"} /\ (~archive.readable \/ ~archive.hasIndex)) =>
    /\ pc = "failed"
    /\ ExitCode(pc) # 0
    /\ db = dbAtStart

\* The step is an attempt of a remote batch write, full or final.
BatchWriteAttempt ==
  backend = "remote" /\ pc \in {"flush", "final"} /\ batch # <<>>

\* C13: every remote batch write, of every bank kind, full or final, goes
\* through withRetry: a rejected attempt ends the command only when it is
\* the MAX_RETRIES-th attempt of the write, and is followed by another
\* attempt otherwise.
C13_BatchWritesRetried ==
  [][(BatchWriteAttempt /\ pc' = "failed") => attempt = MAX_RETRIES]_vars

\* The records of the term banks of archive a, and: Term row x came from
\* record e.
TermRecords(a) ==
  UNION {{a.files[k].entries[i] : i \in 1..Len(a.files[k].entries)} :
           k \in {j \in 1..Len(a.files) : a.files[j].kind = "terms"}}

FromRecord(x, e) == e.term = x.term /\ e.reading = x.reading /\ e.score = x.score

\* The field of a record is null, the empty string or whitespace only.
Blank(v) == v.isNull \/ \A i \in 1..Len(v.s) : v.s[i] = " "

\* C14: a Term record whose definitionTags, rules or termTags is null,
\* empty or whitespace only is stored with a null def_tags_id, rules_id or
\* term_tags_id, and no row of def_tag_sets, rule_sets or term_tag_sets
\* holds the empty string (or a string with whitespace around it).
C14_BlankIsNull ==
  /\ \A t \in TagRuleTables : \A x \in db[t] :
       /\ ValueOf(t, x) # <<>>
       /\ Head(ValueOf(t, x)) # " "
       /\ ValueOf(t, x)[Len(ValueOf(t, x))] # " "
  /\ \A a \in pool : \A d \in DictRowsOf(db, a) : \A x \in TermsOf(db, d.id) :
       \A e \in TermRecords(a) :
         FromRecord(x, e) =>
           /\ Blank(e.defTags) => x.def_tags_id = NULL
           /\ Blank(e.rules) => x.rules_id = NULL
           /\ Blank(e.termTags) => x.term_tags_id = NULL

\* Term rows are stored that came from records with a null definitionTags
\* and an empty rules, with whitespace-only termTags, with whitespace-only
\* rules, and with an empty definitionTags.
C14_BlankStored ==
  /\ \E x \in db["terms"] : FromRecord(x, eCat)
  /\ \E x \in db["terms"] : FromRecord(x, eDog)
  /\ \E x \in db["terms"] : FromRecord(x, eCat2)
  /\ \E x \in db["terms"] : FromRecord(x, eKit)

\* The rows of table t that the step adds to the store.
Added(t) == db'[t] \ db[t]

DictTables == {"terms", "term_meta", "tags", "kanji", "kanji_meta"}

\* C15: a newly registered Dictionary row has is_bundled equal to the flag
\* of the command, on both backends, and every row written later in the
\* import carries the id generated for that row.
C15_FlagAndId ==
  [][/\ \A x \in Added("dictionaries") : x.is_bundled = bundledFlag
     /\ \A t \in DictTables : \A x \in Added(t) :
          x.dict_id = dictId /\ \E y \in DictRowsOf(db, archive) : y.id = x.dict_id]_vars

\* The data column of a TermMeta row as a value: the jsonb value of the
\* remote store, the parsed text of the embedded one.
DataOf(x) == IF backend = "remote" THEN x.data ELSE ParseData(x.data)

\* The rows of table t of store d without their ids, JSON text read back.
Logical(t, d) ==
  IF t = "term_meta" THEN {[x EXCEPT !.data = DataOf(x)] : x \in Content(t, d)}
  ELSE Content(t, d)

\* The records of the banks of kind `kind` of archive a.
BankRecords(a, kind) ==
  UNION {{a.files[k].entries[i] : i \in 1..Len(a.files[k].entries)} :
           k \in {j \in 1..Len(a.files) : a.files[j].kind = kind}}

\* The values the term records of archive a put into interning table t.
InternedValues(a, t) ==
  IF t = "glossaries" THEN {sha1(JSONStringify(e.glossary)) : e \in TermRecords(a)}
  ELSE LET field == CASE t = "def_tag_sets" -> "defTags"
                      [] t = "rule_sets" -> "rules"
                      [] OTHER -> "termTags"
       IN {Trim(e[field].s) : e \in {x \in TermRecords(a) : TrimTruthy(x[field])}}

\* The contents, up to generated ids, an import of the archive into an
\* empty store ends with: the same on whichever backend.
ImportedContents ==
  /\ Content("dictionaries", db) =
       {[title |-> archive.title, revision |-> archive.revision,
         is_bundled |-> bundledFlag]}
  /\ \A t \in InternTables : {ValueOf(t, x) : x \in db[t]} = InternedValues(archive, t)
  /\ {[term |-> x.term, reading |-> x.reading, score |-> x.score,
       sequence |-> x.sequence] : x \in db["terms"]}
       = {[term |-> e.term, reading |-> e.reading, score |-> e.score,
           sequence |-> e.sequence] : e \in TermRecords(archive)}
  /\ Cardinality(db["terms"]) = Cardinality(TermRecords(archive))
  /\ \A kind \in KindSet \ {"terms"} :
       Logical(kind, db) =
         {BankRow(kind, e, dictId, NoIds) : e \in BankRecords(archive, kind)}

\* C16: the same archive imported into an empty store ends, on the embedded
\* and on the remote backend, with logically identical contents in every
\* table of the output schema, up to generated ids.
C16_BackendsAgree ==
  (pc = "done" /\ dbAtStart = EmptyDb /\ faults = 0) => ImportedContents

\* The row of record e of a bank of kind `kind` is in store d for
\* dictionary dict (a tag by its name, a term by its term, reading, score).
RecStored(d, kind, e, dict) ==
  CASE kind = "terms" -> \E x \in TermsOf(d, dict) : FromRecord(x, e)
    [] kind = "tags" -> \E x \in d["tags"] : x.dict_id = dict /\ x.name = e.name
    [] OTHER -> BankRow(kind, e, dict, NoIds) \in Logical(kind, d)

AllStored(d, f, dict) ==
  \A i \in 1..Len(f.entries) : RecStored(d, f.kind, f.entries[i], dict)
NoneStored(d, f, dict) ==
  \A i \in 1..Len(f.entries) : ~RecStored(d, f.kind, f.entries[i], dict)

\* The banks importDict wrote before bank fi of kind SqKind.
EarlierBanks ==
  UNION {{Bank(archive, SqliteKinds[p], n) :
            n \in 1..countBanks(archive, SqliteKinds[p])} : p \in 1..(phase - 1)}
    \cup {Bank(archive, SqKind, n) : n \in 1..(fi - 1)}

\* Every bank of every registered dictionary is stored whole or not at all.
BanksWhole ==
  \A a \in pool : \A d \in DictRowsOf(db, a) :
    \A k \in 1..Len(a.files) :
      a.files[k].kind \in {"terms", "term_meta", "tags"} =>
        AllStored(db, a.files[k], d.id) \/ NoneStored(db, a.files[k], d.id)

\* A statement of the transaction of bank fi throws.
TxnFails == backend = "sqlite" /\ pc = "txn" /\ pc' = "failed"

\* C17: on the embedded backend the rows of one bank file are written in
\* one atomic transaction: in every state between operations each bank is
\* stored whole or not at all, and a failure while writing bank k leaves the
\* banks before it committed and no row of bank k.
C17_BankAtomic ==
  /\ [](backend = "sqlite" => BanksWhole)
  /\ [][TxnFails =>
          /\ \A f \in EarlierBanks : AllStored(db', f, dictId)
          /\ NoneStored(db', Bank(archive, SqKind, fi), dictId)]_vars

\* The second term_meta bank of BadMeta/1 failed at its second record: the
\* first bank is stored, the first record of the second bank is not.
C17_SecondBankFailed ==
  /\ backend = "sqlite" /\ pc = "failed" /\ archive = ArchiveBadMeta
  /\ SqKind = "term_meta" /\ fi = 2 /\ ei = 2
  /\ AllStored(db, Bank(archive, "term_meta", 1), dictId)
  /\ db["term_meta"] # {}
  /\ ~RecStored(db, "term_meta", Bank(archive, "term_meta", 2).entries[1], dictId)

\* JSON.parse of the text JSON.stringify wrote for an array of text items:
\* the items between the quotes, in order.
JSONParse(text) == [k \in 1..((Len(text) - 1) \div 4) |-> text[4 * k - 1]]

\* yomitan.lookup_term(query) and the SELECT of the embedded backend with
\* no reading given: one row per Term row whose term or reading is the
\* query, joined to its Dictionary and Glossary rows.  The glossary is the
\* jsonb value, or the parsed glossary_json text.
LookupTerm(d, query) ==
  {[of |-> j[1].id, term |-> j[1].term, reading |-> j[1].reading,
    score |-> j[1].score, sequence |-> j[1].sequence,
    glossary |-> IF backend = "remote" THEN j[3].content ELSE JSONParse(j[3].content),
    definition_tags |-> Joined(d, "def_tag_sets", j[1].def_tags_id),
    term_tags |-> Joined(d, "term_tag_sets", j[1].term_tags_id),
    rules |-> Joined(d, "rule_sets", j[1].rules_id),
    dict_title |-> j[2].title] :
     j \in {k \in {x \in d["terms"] : x.term = query \/ x.reading = query}
                   \X d["dictionaries"] \X d["glossaries"] :
              k[2].id = k[1].dict_id /\ k[3].id = k[1].glossary_id}}

\* A tag or rule string as text: a null or blank one is the empty text,
\* any other one is trimmed.
Text(v) == IF TrimTruthy(v) THEN Trim(v.s) ELSE <<>>

\* Row r of a lookup shows term record e.
Shows(r, e) ==
  /\ r.term = e.term /\ r.reading = e.reading /\ r.score = e.score
  /\ r.sequence = e.sequence
  /\ r.glossary = e.glossary
  /\ Text(r.definition_tags) = Text(e.defTags)
  /\ Text(r.term_tags) = Text(e.termTags)
  /\ Text(r.rules) = Text(e.rules)

\* C18: after an import a lookup by the term of any term record of the
\* archive returns a row with the reading, score, sequence, tag and rule
\* strings and glossary content of the record; for an archive with a single
\* term record imported into an empty store it returns exactly one row.
C18_LookupShowsRecord ==
  pc = "done" =>
    \A e \in TermRecords(archive) :
      /\ \E r \in LookupTerm(db, e.term) : Shows(r, e)
      /\ (Cardinality(TermRecords(archive)) = 1 /\ dbAtStart = EmptyDb) =>
           Cardinality(LookupTerm(db, e.term)) = 1

\* The tag banks of archive a hold two records with the same name.
RepeatsTagName(a) ==
  \E k, l \in 1..Len(a.files) :
    /\ a.files[k].kind = "tags" /\ a.files[l].kind = "tags"
    /\ \E i \in 1..Len(a.files[k].entries) : \E j \in 1..Len(a.files[l].entries) :
         <<k, i>> # <<l, j>> /\ a.files[k].entries[i].name = a.files[l].entries[j].name

\* C19: after an import no two Tag rows of one dictionary have the same
\* name, also for tag banks that repeat a name; and on both backends a
\* repeated name loses no other row of the import: every record of every
\* bank has its row (a tag by its name).
C19_TagsUniqueNoneLost ==
  /\ \A x, y \in db["tags"] : (x.dict_id = y.dict_id /\ x.name = y.name) => x = y
  /\ (pc = "done" /\ faults = 0 /\ RepeatsTagName(archive)) =>
       \A k \in 1..Len(archive.files) :
         (backend = "sqlite" => archive.files[k].kind \in {"terms", "term_meta", "tags"})
           => AllStored(db, archive.files[k], dictId)

\* The Dictionary rows the step deletes.
Deleted == db["dictionaries"] \ db'["dictionaries"]

\* C20: deleting a Dictionary row removes every Term, TermMeta, Tag, Kanji
\* and KanjiMeta row that references it and no row of another dictionary;
\* afterwards no row references a missing dictionary, and the interned
\* Glossary, tag and rule rows are left in place.
C20_DeleteCascades ==
  [][Deleted # {} =>
       /\ \A t \in DictTables :
            db'[t] = {x \in db[t] : \A y \in Deleted : x.dict_id # y.id}
       /\ \A t \in DictTables : \A x \in db'[t] :
            \E y \in db'["dictionaries"] : y.id = x.dict_id
       /\ \A t \in InternTables : db'[t] = db[t]]_vars

\* Both archives were imported with no failed call, as far as their term
\* rows, and DupTag/1 was deleted then: the Term row of Other/1 is there,
\* the Term and Tag rows of DupTag/1 are not, the interned rows are.
C20_DeletedAfterImport ==
  /\ faults = 0
  /\ \E a, b \in AnswersOf("glossaries") : a.run # b.run
  /\ DictRowsOf(db, ArchiveDupTag) = {}
  /\ \E d \in DictRowsOf(db, ArchiveOther) : TermsOf(db, d.id) # {}
  /\ Cardinality(db["terms"]) = 1
  /\ db["tags"] = {}
  /\ db["glossaries"] # {} /\ db["rule_sets"] # {}

\* C21: for each bank kind exactly the files <kind>_1 .. <kind>_n are
\* imported, n the largest number with all of 1..n in the archive: a file
\* numbered after a gap is not imported.
C21_BanksUpToFirstGap ==
  (pc = "done" /\ faults = 0) =>
    \A k \in 1..Len(archive.files) :
      archive.files[k].kind \in {"terms", "term_meta", "tags"} =>
        IF archive.files[k].n <= countBanks(archive, archive.files[k].kind)
        THEN AllStored(db, archive.files[k], dictId)
        ELSE NoneStored(db, archive.files[k], dictId)

\* C22: the entry stream hands entries to the consumer one at a time: the
\* next entry is requested only after the callback of the current one has
\* completed, so two entry callbacks never overlap and at most one entry's
\* content is held at once; only bank files reach the callback.
C22_OneEntryAtATime ==
  /\ Cardinality(cur) <= 1
  /\ Cardinality({h \in cur : h.held}) <= 1
  /\ cur # {} => ei = 0
  /\ \A h \in cur : isBank(ZipEntries(archive)[h.entry])

\* The callback of the second bank file of an archive is running, with the
\* content of that file held, after the callback of the first returned.
C22_SecondCallback ==
  /\ \E h \in cur : h.at = "callback" /\ h.held /\ h.entry >= 3
  /\ Len(archive.files) >= 2

\* The TermMeta rows of dictionary dict in store d.
TermMetaOf(d, dict) == {x \in d["term_meta"] : x.dict_id = dict}

\* C23: the reading column of a TermMeta row is the reading inside its data
\* when data is an object that has one, and null otherwise; the data
\* itself is stored unchanged: every row is the row of a record.
C23_ReadingSurfaced ==
  \A a \in pool : \A d \in DictRowsOf(db, a) : \A x \in TermMetaOf(db, d.id) :
    \E e \in BankRecords(a, "term_meta") :
      /\ x.term = e.term /\ x.mode = e.mode
      /\ DataOf(x) = e.data
      /\ x.reading = IF e.data.isObject /\ e.data.hasReading
                     THEN Str(e.data.reading) ELSE JsNull

\* The rows of all records of Meta/1 are stored: a number, a pitch object,
\* a freq object with a reading and one without.
C23_AllShapesStored ==
  /\ archive = ArchiveMeta
  /\ \A e \in BankRecords(ArchiveMeta, "term_meta") :
       \E x \in TermMetaOf(db, dictId) : DataOf(x) = e.data

\* C24: the command exits with code 1 when the archive path is missing,
\* before anything is opened or written, and with code 1 when the archive
\* file does not exist; it exits with code 0 after an import and after the
\* skip of an installed dictionary, which is how every command on a good
\* archive ends when no call fails.
C24_ExitCodes ==
  /\ (pc \notin {"idle", "start"} /\ archive = NoArgument) =>
       pc = "usage" /\ ExitCode(pc) = 1 /\ db = dbAtStart
  /\ (pc \notin {"idle", "start"} /\ archive = ArchiveUnreadable) =>
       pc = "failed" /\ ExitCode(pc) = 1 /\ db = dbAtStart
  /\ pc \in {"done", "skipped"} => ExitCode(pc) = 0
  /\ (pc \in Ended /\ faults = 0 /\ archive = ArchiveMeta) => pc \in {"done", "skipped"}

\* A command without the archive path ended, after an import that stored
\* its rows.
C24_UsageAfterImport ==
  /\ pc = "usage" /\ archive = NoArgument
  /\ prev.pc = "done" /\ prev.archive = ArchiveMeta
  /\ db["terms"] # {} /\ db = dbAtStart

\* C25: withRetry(fn) calls fn at most MAX_RETRIES = 3 times; it returns
\* the result of the first call that does not throw and calls fn no more;
\* after the k-th failed call, k < 3, it waits 1000 * 2^(k-1) ms (1000, then
\* 2000) before the next call; after the third failed call it waits no more
\* and throws the error of that call.
C25_RetryPolicy ==
  /\ Len(batch) <= 3
  /\ \A k \in 1..(Len(batch) - 1) : batch[k].thrown
  /\ cur.waits = SubSeq(<<1000, 2000>>, 1, Len(cur.waits))
  /\ Len(cur.waits) = (IF pc = "call" THEN Len(batch)
                       ELSE IF pc = "thrown" THEN 2 ELSE Len(batch) - 1)
  /\ pc = "returned" <=> (batch # <<>> /\ ~batch[Len(batch)].thrown)
  /\ pc = "returned" =>
       cur.settled = "resolved" /\ cur.value = batch[Len(batch)].value
  /\ pc = "thrown" <=> (Len(batch) = 3 /\ batch[3].thrown)
  /\ pc = "thrown" => cur.settled = "rejected" /\ cur.value = batch[3].value
  /\ pc \in {"call", "wait"} => cur.settled = "pending"

\* The third call of fn returned after two calls that threw and both waits.
C25_ThirdCallReturned ==
  /\ pc = "returned" /\ Len(batch) = 3 /\ cur.waits = <<1000, 2000>>
  /\ batch[1].thrown /\ batch[2].thrown

\* C26: in the remote writer the pending batch never holds more than
\* BATCH_SIZE rows; a write is issued exactly when the batch reaches that
\* size, and once more at the end for a non-empty remainder; the batch is
\* carried over the boundaries of bank files; every decoded row is pushed
\* to the batch and leaves it only with the write of the whole batch, and
\* no row is pending when the processor of a kind ends.
C26_Batching ==
  /\ [](backend = "remote" =>
          /\ Len(batch) <= BatchSize
          /\ Len(batch) = BatchSize => pc \in {"flush", "failed"}
          /\ pc = "flush" => Len(batch) = BatchSize)
  /\ [][backend = "remote" =>
          /\ pc = "row" => batch' = Append(batch, BankRow(Kind, CurEntry, dictId, cur))
          /\ (batch' # batch /\ pc # "row") =>
               /\ batch' = <<>>
               /\ \/ pc \in {"flush", "final"} /\ attempt' = 1 /\ pc' # "failed"
                  \/ pc' = "start"
          /\ (pc = "final" /\ batch = <<>>) => db' = db
          /\ phase' # phase => batch' = <<>>]_vars

\* A row of the first term bank is pending while the second term bank is
\* being processed.
C26_CarriedOver ==
  /\ backend = "remote" /\ pc = "row" /\ Kind = "terms" /\ fi > 1
  /\ Len(batch) = 1 /\ batch[1].term = archive.files[1].entries[1].term
  /\ CurEntry.term # batch[1].term

\* The interning table and the value of the intern call the remote importer
\* stands at.
InternTable ==
  CASE pc = "internG" -> "glossaries"
    [] pc = "internD" -> "def_tag_sets"
    [] pc = "internR" -> "rule_sets"
    [] OTHER -> "term_tag_sets"
InternKey ==
  CASE pc = "internG" -> GlossaryHash
    [] pc = "internD" -> Trim(CurEntry.defTags.s)
    [] pc = "internR" -> Trim(CurEntry.rules.s)
    [] OTHER -> Trim(CurEntry.termTags.s)

\* The value the embedded importer interns in table t for the record of
\* its current step.
SqKey(t) ==
  CASE t = "glossaries" -> sha1(SqGlossaryJson)
    [] t = "def_tag_sets" -> Trim(SqEntry.defTags.s)
    [] t = "rule_sets" -> Trim(SqEntry.rules.s)
    [] OTHER -> Trim(SqEntry.termTags.s)

\* C27: within one run, interning a value that is in the cache performs no
\* storage operation; a value is put in the cache by the round trip that
\* answers its id and stays there, with that id, to the end of the run: so
\* each distinct value of a table causes at most one round trip in the run.
C27_CachedNoStorage ==
  [][/\ (backend = "remote" /\ pc \in {"internG", "internD", "internR", "internT"}) =>
          /\ InternKey \in DOMAIN cache[InternTable] =>
               /\ db' = db /\ seq' = seq /\ attempt' = attempt /\ faults' = faults
               /\ pc' # "failed"
          /\ (InternKey \notin DOMAIN cache[InternTable]
                /\ cache' # cache) =>
               /\ InternKey \in DOMAIN cache'[InternTable]
               /\ \A t \in InternTables \ {InternTable} : cache'[t] = cache[t]
     /\ (backend = "sqlite" /\ pc = "txn" /\ SqKind = "terms") =>
          \A t \in InternTables :
            SqKey(t) \in DOMAIN cache[t] => work'[t] = work[t]
     /\ pc' # "start" =>
          \A t \in InternTables : \A k \in DOMAIN cache[t] :
            k \in DOMAIN cache'[t] /\ cache'[t][k] = cache[t][k]]_vars

\* The remote importer stands at the intern of a glossary that is in the
\* cache, with another glossary cached too.
C27_CacheHit ==
  /\ backend = "remote" /\ pc = "internG"
  /\ GlossaryHash \in DOMAIN cache["glossaries"]
  /\ Cardinality(DOMAIN cache["glossaries"]) = 2

\* The process whose registration was answered with a failure.
Rejected(p) == cur[p] = "rejected"

\* C28: with two remote importers of the same (title, revision) at once, in
\* any interleaving of their checks and registrations, the store never
\* holds more than one Dictionary row of the pair, and the importer whose
\* registration is rejected ends in the error and has sent no bank row.
C28_OneRowOneWriter ==
  /\ Cardinality(DictRowsOf(db, RegArchive)) <= 1
  /\ \A p \in Procs : Rejected(p) => pc[p] = "failed" /\ batch[p] = <<>>

\* Both importers found no row; with no failed call, one registered and
\* stored its tag rows, the registration of the other was rejected.
C28_LoserRejected ==
  /\ faults = 0
  /\ \A p \in Procs : existing[p] = "none"
  /\ \E p \in Procs : \E q \in Procs \ {p} :
       /\ pc[p] = "done" /\ cur[p] = "registered"
       /\ Rejected(q)
       /\ {x \in db["tags"] : x.dict_id = dictId[p]} # {}

\* C29: readIndexFromZip settles for every archive that can be opened: the
\* step that reads the index of a readable archive ends resolved (the
\* command goes on to its check) when the archive has index.json, and
\* rejected (the command fails) when the entries end without index.json.
C29_ReadIndexSettles ==
  [][(backend = "remote" /\ pc = "start" /\ pc' # "start"
        /\ archive # NoArgument /\ archive.readable) =>
       pc' = (IF archive.hasIndex THEN "check" ELSE "failed")]_vars

\* The rows of bank table `kind` stored for Dictionary row dict.
RowsOfDict(d, kind, dict) == {x \in d[kind] : x.dict_id = dict}

\* C30: a remote batch whose write was executed by the store and answered
\* to the importer as failed is not stored again by the retry: after an
\* import in which every batch was stored, each bank table holds, for the
\* new dictionary, one row per record of the archive.
C30_RetryStoresOnce ==
  (backend = "remote" /\ pc = "done" /\ unstored = 0) =>
    \A kind \in KindSet :
      Cardinality(RowsOfDict(db, kind, dictId))
        = Cardinality(BankRecords(archive, kind))

\* The store the interning of the command reads: the transaction's view of
\* the embedded importer inside a bank transaction, else the store.
Seen == IF backend = "sqlite" /\ pc \in {"txn", "commit"} THEN work ELSE db

\* Every entry of the four caches names a row of d holding that value.
CachesTrue(d) ==
  \A t \in InternTables : \A k \in DOMAIN cache[t] :
    \E x \in d[t] : x.id = cache[t][k] /\ ValueOf(t, x) = k

\* The command is interning for, or writing, a Term row.
WritesTerm ==
  \/ backend = "remote" /\ pc \in {"internG", "internD", "internR", "internT", "row"}
  \/ backend = "remote" /\ pc \in {"flush", "final"} /\ Kind = "terms"
  \/ backend = "sqlite" /\ pc \in {"txn", "commit"} /\ SqKind = "terms"

\* C31: wherever a Term row is written every cache entry names an existing
\* row that holds the entry's value, also in a command that follows one
\* whose bank transaction was rolled back.
C31_CachesTrue == WritesTerm => CachesTrue(Seen)

\* The embedded importer writes a Term row from filled caches, in the
\* command after one whose second term bank was rolled back.
C31_AfterRollback ==
  /\ backend = "sqlite" /\ pc = "commit" /\ SqKind = "terms"
  /\ prev.archive = ArchiveBadTerm /\ prev.pc = "failed"
  /\ archive = ArchiveDupTag
  /\ cache["glossaries"] # <<>>

\* The Term rows shown by the lookup, and the term and reading the command
\* line gave (the db path, when given, is the last argument).
ShownIds == {cur.rows[i].of : i \in 1..Len(cur.rows)}
TermIds(P(_)) == {x.id : x \in {y \in db["terms"] : P(y)}}

\* C32: with only a term given the lookup returns exactly the Term rows
\* whose term or reading is the term, with a term and a reading given
\* exactly the rows whose term is the first and whose reading is the
\* second, each row once, in non-increasing order of score.
C32_LookupExact ==
  pc = "shown" =>
    /\ Len(SelArgs) = 1 =>
         LET Either(y) == y.term = SelArgs[1] \/ y.reading = SelArgs[1]
         IN ShownIds = TermIds(Either)
    /\ Len(SelArgs) = 2 =>
         LET Both(y) == y.term = SelArgs[1] /\ y.reading = SelArgs[2]
         IN ShownIds = TermIds(Both)
    /\ Len(cur.rows) = Cardinality(ShownIds)
    /\ \A i \in 1..Len(cur.rows) : \A j \in 1..Len(cur.rows) :
         i < j => cur.rows[i].score >= cur.rows[j].score

\* C33: the response of a search request changes the result list only
\* when the request is the most recently issued one: the arrival of a
\* response of an older request leaves entries and rowsShown unchanged.
C33_StaleDropped ==
  [][(\E r \in interned \ interned' : r.thisRequest # cur.requestId) =>
       (batch' = batch /\ cur'.rowsShown = cur.rowsShown)]_vars

\* A response of an older request was dropped while the list showed rows
\* and a newer request was still awaited.
C33_DroppedOne ==
  /\ pc = "mounted" /\ faults = 1
  /\ batch # <<>>
  /\ interned # {}

\* Nothing is pending in the page: no timeout and no request.
Quiet == ~cur.searchTimeout /\ interned = {}

\* entries is the first rows of the pattern qTerm, without gap or repeat.
PrefixOf(qTerm) ==
  /\ Len(batch) <= TotalRows(qTerm)
  /\ \A i \in 1..Len(batch) : batch[i] = [qTerm |-> qTerm, n |-> i]

\* C34: after any changes of the query, submissions and clipboard updates,
\* once nothing is pending and q is not empty, the search for the final q
\* was issued and its rows are shown: a pending timeout is not cancelled
\* without a search taking its place.
C34_FinalQuerySearched ==
  (pc = "mounted" /\ run = 1 /\ cur.q # <<>> /\ Quiet) =>
    (batch # <<>> /\ PrefixOf(QTerm(cur.q)))

\* C35: entries always is a gap-free, duplicate-free prefix of the rows of
\* one single query.
C35_PrefixOfOneQuery ==
  pc = "mounted" => \E q \in QueryTexts : PrefixOf(QTerm(q))

\* C36: once the query is the empty string the result list is empty and
\* stays empty; a response of a request issued before does not fill it.
C36_ClearedStaysEmpty ==
  (pc = "mounted" /\ run = 1 /\ cur.q = <<>>) => batch = <<>>

\* The calls of tr that wrote a row of the i-th record, and the number of
\* times row x was written.
CallsOf(i) ==
  {t \in 1..Len(cur.txns) : \E n \in 1..Len(cur.txns[t]) : cur.txns[t][n].of = i}
TimesWritten(x) ==
  Cardinality({tn \in (1..Len(cur.txns)) \X (1..(BATCH + MaxRecords * 2)) :
                 tn[2] <= Len(cur.txns[tn[1]]) /\ cur.txns[tn[1]][tn[2]] = x})

\* C37: in the builder every record read from a collection is written by
\* exactly one call of the transaction, no row twice; every transaction
\* before the final flush writes exactly BATCH rows; and the buffer never
\* holds more than BATCH + 1 records.
C37_BuilderBatches ==
  /\ pc = "done" =>
       \A i \in 1..Len(cur.records) :
         /\ Cardinality(CallsOf(i)) = 1
         /\ \A t \in CallsOf(i) : \A n \in 1..Len(cur.txns[t]) :
              TimesWritten(cur.txns[t][n]) = 1
  /\ pc \in {"read", "done"} =>
       /\ \A t \in 1..Len(cur.txns) :
            (pc = "read" \/ t < Len(cur.txns)) => Len(cur.txns[t]) = BATCH
       /\ cur.peak <= BATCH + 1

====
